---- MODULE Spec2Model ----
(***************************************************************************)
(* Model of the seismic event manager (internal/manager), of the region    *)
(* classifier it calls (internal/geometry) and of the tasks that drive it  *)
(* (cmd/server).                                                           *)
(*                                                                         *)
(* Time is counted in whole days.  A record carries the fields the manager *)
(* and the classifier read or write: ID, Latitude, Longitude, Time,        *)
(* Source, Oceano, OceanoRegion; and Magnitude, a float that json.Marshal  *)
(* reads when the record is broadcast.  Location, Depth and URL are copied *)
(* with the record and decide nothing in this code; they are left out.     *)
(***************************************************************************)
EXTENDS Integers, Sequences, FiniteSets, TLC

(***************************************************************************)
(* Bounds of the model.                                                    *)
(***************************************************************************)
\* longest batch a feed hands to AddEarthquakes
MaxBatch == 3
\* last instant the clock reaches
MaxNow == 9
\* side of the square handed to PointInPolygon
SquareSide == 10
\* how far beyond the square the points handed to PointInPolygon lie
GridMargin == 5
\* messages handed to the hub after the backlog of the initial state
MaxBroadcasts == 3
\* fetch cycles the data collection runs
MaxCycles == 2

(***************************************************************************)
(* Program constants.                                                      *)
(***************************************************************************)
\* maxEarthquakeAge = 7 * 24 * time.Hour, in days
maxAge == 7
\* make(chan models.Earthquake, 100)
newEarthquakeChanCap == 100
\* cleanupInterval = 1 * time.Hour, rounded up to a whole day
cleanupInterval == 1
\* send: make(chan []byte, 256)
sendCap == 256
\* broadcast: make(chan []byte, 256)
broadcastCap == 256

\* first instant of the clock: late enough for now - maxAge to be a valid instant
StartNow == maxAge + 1

\* the callers of AddEarthquakes, one per feed; each feed stamps its own
\* Source on its records.  The manager is written for concurrent callers
\* (every operation takes em.mu), so the callers run at once here.
Procs == {"USGS", "GEOFON"}
NoOne == "none"

\* identifiers the feeds report
IDs == {"e1", "e2"}

(***************************************************************************)
(* internal/models: Point, Polygon                                         *)
(***************************************************************************)
Point(lat, lon) == [Lat |-> lat, Lon |-> lon]

\* a rectangle as a 4-point polygon, in the vertex order of the
\* square [(0,0),(0,10),(10,10),(10,0)]
Rect(lat0, lon0, lat1, lon1) ==
    << Point(lat0, lon0), Point(lat0, lon1), Point(lat1, lon1), Point(lat1, lon0) >>

(***************************************************************************)
(* internal/geometry/polygon.go                                            *)
(***************************************************************************)
\* rayIntersectsSegment: the horizontal ray from point towards larger
\* longitudes crosses the segment p1-p2.  The code compares
\*   point.Lon < p1.Lon + (point.Lat - p1.Lat) * (p2.Lon - p1.Lon) / (p2.Lat - p1.Lat)
\* here both sides are multiplied by (p2.Lat - p1.Lat), which is not zero
\* once the first test has passed, and the comparison is turned when that
\* factor is negative.
rayIntersectsSegment(point, p1, p2) ==
    IF (p1.Lat > point.Lat) = (p2.Lat > point.Lat)
    THEN FALSE
    ELSE LET dLat == p2.Lat - p1.Lat
             dLon == p2.Lon - p1.Lon
             lhs  == (point.Lon - p1.Lon) * dLat
             rhs  == (point.Lat - p1.Lat) * dLon
         IN  IF dLat > 0 THEN lhs < rhs ELSE lhs > rhs

\* number of edges i..n of the closed polygon that the ray crosses
RECURSIVE Intersections(_, _, _)
Intersections(point, polygon, i) ==
    LET n == Len(polygon) IN
    IF i > n THEN 0
    ELSE (IF rayIntersectsSegment(point, polygon[i], polygon[(i % n) + 1]) THEN 1 ELSE 0)
         + Intersections(point, polygon, i + 1)

\* a variant that answers true on an even number of crossings
PointInPolygonEven(point, polygon) ==
    IF Len(polygon) < 3 THEN FALSE
    ELSE Intersections(point, polygon, 1) % 2 = 0

PointInPolygon(point, polygon) ==
    IF Len(polygon) < 3 THEN FALSE
    ELSE Intersections(point, polygon, 1) % 2 = 1

\* evaluarPuntosMultiples: the point is in one of the polygons of the list
evaluarPuntosMultiples(point, polygons) ==
    \E k \in 1..Len(polygons) : PointInPolygon(point, polygons[k])

\* a variant that tries the regional polygon before the local one
determinarRegionPacificoRegionalFirst(rd, point) ==
    IF PointInPolygon(point, rd.LatlonPacificoRegional) THEN "regional"
    ELSE IF PointInPolygon(point, rd.LatlonPacificoLocal) THEN "local"
    ELSE "lejano"

\* determinarRegionPacifico
determinarRegionPacifico(rd, point) ==
    IF PointInPolygon(point, rd.LatlonPacificoLocal) THEN "local"
    ELSE IF PointInPolygon(point, rd.LatlonPacificoRegional) THEN "regional"
    ELSE "lejano"

(***************************************************************************)
(* internal/geometry/regions_data.go                                       *)
(***************************************************************************)
\* var regionData *RegionData before LoadRegionData
NilRegionData == [nil |-> TRUE]

\* the document LoadRegionData reads: a fixture in which the polygons
\* overlap, so that the order of the decision list matters
LoadedRegionData ==
    [ LatlonCPWorld            |-> Rect(0, 0, 8, 4),
      LatlonPacificoLocal      |-> Rect(0, 2, 4, 8),
      LatlonPacificoRegional   |-> Rect(2, 2, 8, 10),
      LatlonPacificoLocal20Km  |-> Rect(0, 8, 2, 12),
      LatlonCCWorld            |-> << Rect(0, 12, 4, 16), Rect(4, 12, 8, 14) >>,
      LatlonCaribeRegional     |-> << Rect(2, 14, 8, 18), Rect(0, 6, 2, 8) >>,
      LatlonCaribeLocal        |-> Rect(4, 16, 8, 20),
      LatlonCaribeLocalInsular |-> Rect(0, 18, 2, 20) ]

\* CategorizeEarthquake(&eq): the record with the labels the code leaves in it
CategorizeEarthquake(rd, eq) ==
    IF rd = NilRegionData THEN eq
    ELSE
    LET point == Point(eq.Latitude, eq.Longitude)
        lab(o, r) == [eq EXCEPT !.Oceano = o, !.OceanoRegion = r]
    IN  IF PointInPolygon(point, rd.LatlonCPWorld)
            THEN lab("Pacifico", determinarRegionPacifico(rd, point))
        ELSE IF PointInPolygon(point, rd.LatlonPacificoLocal)
            THEN lab("Pacifico", "local")
        ELSE IF Len(rd.LatlonPacificoRegional) > 0
                /\ PointInPolygon(point, rd.LatlonPacificoRegional)
            THEN lab("Pacifico", "regional")
        ELSE IF Len(rd.LatlonPacificoLocal20Km) > 0
                /\ PointInPolygon(point, rd.LatlonPacificoLocal20Km)
            THEN lab("Pacifico", "local")
        ELSE IF evaluarPuntosMultiples(point, rd.LatlonCCWorld)
            THEN lab("Caribe", "lejano")
        ELSE IF evaluarPuntosMultiples(point, rd.LatlonCaribeRegional)
            THEN lab("Caribe", "regional")
        ELSE IF PointInPolygon(point, rd.LatlonCaribeLocal)
                \/ PointInPolygon(point, rd.LatlonCaribeLocalInsular)
            THEN lab("Caribe", "local")
        ELSE lab("Uncategorized", "Uncategorized")

(***************************************************************************)
(* Records handed to the manager                                           *)
(***************************************************************************)
\* epicentres the feeds report: (1,5) is inside the Pacific local polygon
\* only, (3,19) is outside every polygon of the fixture
FeedPoints(src) == IF src = "USGS" THEN { Point(1, 5), Point(3, 19) } ELSE { Point(1, 5) }

\* the origin time each feed reports for an identifier: the two feeds
\* disagree, and each reports one event older than maxAge at StartNow
FeedTime(src, id) == IF (src = "USGS") = (id = "e1") THEN 0 ELSE 2

\* a float64: a finite value, or NaN
Float(v) == [ finite |-> TRUE, v |-> v ]
NaN == [ finite |-> FALSE, v |-> 0 ]

\* the magnitude each feed reports for an identifier.  USGS and SGC decode
\* a JSON number, which is finite; GEOFON parses the text of the item's
\* title with strconv.ParseFloat, which returns NaN for "NaN", and one
\* item of its document reads so
FeedMagnitude(src, id) == IF src = "GEOFON" /\ id = "e2" THEN NaN ELSE Float(5)

\* a record as a fetcher builds it: the label fields are left empty
RawEarthquake(id, pt, t, src) ==
    [ ID |-> id, Latitude |-> pt.Lat, Longitude |-> pt.Lon, Time |-> t,
      Source |-> src, Oceano |-> "", OceanoRegion |-> "",
      Magnitude |-> FeedMagnitude(src, id) ]

\* what Fetch() of a feed can return, record by record
FeedRecords(src) ==
    { RawEarthquake(id, pt, FeedTime(src, id), src) : id \in IDs, pt \in FeedPoints(src) }

\* the longest batch of each feed: GEOFON's document holds one item
BatchLimit(p) == IF p = "USGS" THEN MaxBatch ELSE 1

(***************************************************************************)
(* internal/manager/earthquake_manager.go: state                           *)
(***************************************************************************)
VARIABLES
    regionData,          \* geometry.regionData
    earthquakes,         \* em.earthquakes: ID -> Earthquake
    newEarthquakeChan,   \* em.newEarthquakeChan: the buffered records, oldest first
    mu,                  \* em.mu: the holder of the exclusive lock, or NoOne
    now,                 \* time.Now()
    removed,             \* what the last CleanOld returned
    pc,                  \* where each feed is in AddEarthquakes / AddEarthquake
    cur,                 \* the element of the batch handed to AddEarthquake
    eq,                  \* AddEarthquake's own copy of its argument
    ret,                 \* what AddEarthquake returns
    batch,               \* history: the elements of the batch ranged over so far
    rets,                \* history: what AddEarthquake returned for each of them
    newOnes,             \* AddEarthquakes' result under construction
    fresh,               \* history: the identifier was not stored when AddEarthquake was called
    gap,                 \* history: CleanOld removed the identifier while the call waited for the lock
    note,                \* history: "sent" or "dropped" once the call reached its select
    base,                \* history: count and channel length when AddEarthquakes was
                         \* called, or Disturbed once something else changed the manager
    given,               \* the record a caller hands to CategorizeEarthquake, as handed
    subject,             \* the same record once CategorizeEarthquake has returned
    point,               \* PointInPolygon's first argument
    polygon,             \* PointInPolygon's second argument
    inside,              \* PointInPolygon's result
    clients,             \* h.clients: the clients in the map
    broadcast,           \* h.broadcast: the buffered messages, oldest first
    send,                \* client.send of each client: the buffered messages
    closed,              \* client.send of each client has been closed
    crashed,             \* a goroutine has panicked (send on or close of a closed channel)
    serve,               \* where ServeWs is for each client
    reader,              \* where readPump is for each client
    writer,              \* where writePump is for each client
    hand,                \* the messages writePump has received for the frame it is writing
    conn,                \* client.conn of each client: "open" or "closed"
    frames,              \* what has been written to client.conn, frame by frame
    submitted,           \* history: the number of messages handed to h.broadcast so far
    processed,           \* history: the messages the hub has taken from h.broadcast
    queued,              \* history: the messages put into each client.send
    departed,            \* history: the branch that removed the client: "no", "unregistered", "evicted"
    drv,                 \* fetchAllData: the fetcher the loop is at, and the history of the cycle
    hmu,                 \* h.mu: whether the exclusive lock is held, and the holders of the shared lock
    hubpc,               \* where Hub.Run is: at its select, or inside one of the three cases
    counter,             \* where a caller of GetClientCount is: "idle", or "locked" while it holds h.mu
    main,                \* where main is: "serving", "signalled" (<-quit returned), "returned"
    fwd                  \* startWebSocketNotifications: the record received and not yet broadcast

mgrVars == << regionData, earthquakes, newEarthquakeChan, mu, now, removed >>
feedVars == << pc, cur, eq, ret, batch, rets, newOnes >>
histVars == << fresh, gap, note, base >>
geoVars == << given, subject, point, polygon, inside >>
hubVars == << clients, broadcast, send, closed, crashed, serve, reader, writer,
             hand, conn, frames, submitted, processed, queued, departed >>
taskVars == << drv, hmu, hubpc, counter, main, fwd >>
restVars == << geoVars, hubVars, taskVars >>
vars == << regionData, earthquakes, newEarthquakeChan, mu, now, removed,
           pc, cur, eq, ret, batch, rets, newOnes, fresh, gap, note, base,
           given, subject, point, polygon, inside,
           clients, broadcast, send, closed, crashed, serve, reader, writer,
           hand, conn, frames, submitted, processed, queued, departed,
           drv, hmu, hubpc, counter, main, fwd >>

NoEq == [none |-> TRUE]
Disturbed == [disturbed |-> TRUE]

\* map helpers
Put(m, k, v) == [x \in (DOMAIN m) \cup {k} |-> IF x = k THEN v ELSE m[x]]
Delete(m, k) == [x \in (DOMAIN m) \ {k} |-> m[x]]
EmptyMap == [x \in {} |-> NoEq]

\* GetCount
GetCount ==
    Cardinality({ k \in DOMAIN earthquakes :
                    /\ earthquakes[k].Oceano # "" /\ earthquakes[k].Oceano # "Uncategorized"
                    /\ earthquakes[k].OceanoRegion # ""
                    /\ earthquakes[k].OceanoRegion # "Uncategorized" })

(***************************************************************************)
(* NewEarthquakeManager, after main has loaded the region data             *)
(***************************************************************************)
\* no call of the geometry package is under way
Pending == << >>
\* PointInPolygon has returned b
Answer(b) == << b >>
GeoIdle ==
    /\ given = NoEq /\ subject = NoEq
    /\ point = Point(0, 0) /\ polygon = << >> /\ inside = Pending

\* the connections the server is asked to serve
Clients == {"c1", "c2"}

\* NewHub, and no connection yet
HubInit ==
    /\ clients = {}
    /\ broadcast = << >>
    /\ send = [c \in Clients |-> << >>]
    /\ closed = [c \in Clients |-> FALSE]
    /\ crashed = FALSE
    /\ serve = [c \in Clients |-> "idle"]
    /\ reader = [c \in Clients |-> "off"]
    /\ writer = [c \in Clients |-> "off"]
    /\ hand = [c \in Clients |-> << >>]
    /\ conn = [c \in Clients |-> "open"]
    /\ frames = [c \in Clients |-> << >>]
    /\ submitted = 0
    /\ processed = << >>
    /\ queued = [c \in Clients |-> << >>]
    /\ departed = [c \in Clients |-> "no"]

\* fetchAllData has not been called: the loop is before its first fetcher
DrvIdle == [ i |-> 1, at |-> "fetch", cycle |-> 1, calls |-> << >>, passed |-> << >> ]

\* sync.RWMutex, unlocked
HmuFree == [ w |-> FALSE, r |-> {} ]

\* Hub.Run is at its select
HubSelect == [ at |-> "select", c |-> NoOne, seen |-> 0 ]

\* no call of GetClientCount is under way
StatsIdle == "idle"

\* the tasks main starts are before their first step
TasksIdle ==
    /\ drv = DrvIdle
    /\ hmu = HmuFree
    /\ hubpc = HubSelect
    /\ counter = StatsIdle
    /\ main = "serving"
    /\ fwd = NoEq

ManagerInit(ch) ==
    /\ earthquakes = EmptyMap
    /\ newEarthquakeChan = ch
    /\ mu = NoOne
    /\ now = StartNow
    /\ removed = 0
    /\ pc = [p \in Procs |-> "loop"]
    /\ cur = [p \in Procs |-> NoEq]
    /\ eq = [p \in Procs |-> NoEq]
    /\ ret = [p \in Procs |-> FALSE]
    /\ batch = [p \in Procs |-> << >>]
    /\ rets = [p \in Procs |-> << >>]
    /\ newOnes = [p \in Procs |-> << >>]
    /\ fresh = [p \in Procs |-> FALSE]
    /\ gap = [p \in Procs |-> FALSE]
    /\ note = [p \in Procs |-> "none"]
    /\ base = [p \in Procs |-> Disturbed]

InitWith(ch) ==
    /\ regionData = LoadedRegionData
    /\ ManagerInit(ch)
    /\ GeoIdle
    /\ HubInit
    /\ TasksIdle

Init == InitWith(<< >>)

\* the feed is between the first and the last step of a batch
InBatch(p) == pc[p] # "done" /\ (pc[p] # "loop" \/ batch[p] # << >>)

\* the feed is inside a call of AddEarthquake
InCall(p) == pc[p] \in {"lock", "store", "ret"}

(***************************************************************************)
(* AddEarthquakes: for _, eq := range earthquakes                          *)
(***************************************************************************)
\* the range yields the next element, one of the records of S, and
\* AddEarthquake is called with it
PickFrom(p, S) ==
    /\ pc[p] = "loop"
    /\ Len(batch[p]) < BatchLimit(p)
    /\ \E r \in S :
        /\ cur' = [cur EXCEPT ![p] = r]
        /\ batch' = [batch EXCEPT ![p] = Append(@, r)]
        /\ fresh' = [fresh EXCEPT ![p] = r.ID \notin DOMAIN earthquakes]
    /\ pc' = [pc EXCEPT ![p] = "lock"]
    /\ base' = [base EXCEPT ![p] =
                  IF batch[p] # << >> THEN @
                  ELSE IF \E q \in Procs \ {p} : InBatch(q) THEN Disturbed
                  ELSE [count |-> GetCount, stream |-> Len(newEarthquakeChan)]]
    /\ UNCHANGED << mgrVars, eq, ret, rets, newOnes, gap, note >>
    /\ UNCHANGED restVars

\* the batch is what Fetch() of the feed returned
Pick(p) == PickFrom(p, FeedRecords(p))

\* the range is exhausted: return newOnes
Return(p) ==
    /\ pc[p] = "loop"
    /\ pc' = [pc EXCEPT ![p] = "done"]
    /\ UNCHANGED << mgrVars, cur, eq, ret, batch, rets, newOnes, histVars >>
    /\ UNCHANGED restVars

\* a variant that puts the newest acceptance first
AppendNewInFront(s, e) == << e >> \o s

\* newOnes = append(newOnes, eq)
AppendNew(s, e) == Append(s, e)

\* if em.AddEarthquake(eq) { newOnes = append(newOnes, eq) }
Collect(p) ==
    /\ pc[p] = "ret"
    /\ newOnes' = [newOnes EXCEPT ![p] = IF ret[p] THEN AppendNew(@, cur[p]) ELSE @]
    /\ rets' = [rets EXCEPT ![p] = Append(@, ret[p])]
    /\ pc' = [pc EXCEPT ![p] = "loop"]
    /\ cur' = [cur EXCEPT ![p] = NoEq]
    /\ ret' = [ret EXCEPT ![p] = FALSE]
    /\ fresh' = [fresh EXCEPT ![p] = FALSE]
    /\ gap' = [gap EXCEPT ![p] = FALSE]
    /\ note' = [note EXCEPT ![p] = "none"]
    /\ UNCHANGED << mgrVars, eq, batch, base >>
    /\ UNCHANGED restVars

(***************************************************************************)
(* AddEarthquake                                                           *)
(***************************************************************************)
\* a variant without the lock: Lock() returns at once
LockFreeAlways(p) == TRUE

\* em.mu.Lock() returns only when nobody holds the lock
LockFree(p) == mu = NoOne

\* a variant without the existence test
ExistsNever(m, e) == FALSE

\* if _, exists := em.earthquakes[eq.ID]; exists
Exists(m, e) == e.ID \in DOMAIN m

\* Lock, the existence test, and geometry.CategorizeEarthquake(&eq) on the
\* copy; a duplicate returns false at once (the deferred Unlock runs)
AddCheck(p) ==
    /\ pc[p] = "lock"
    /\ LockFree(p)
    /\ IF Exists(earthquakes, cur[p])
       THEN /\ ret' = [ret EXCEPT ![p] = FALSE]
            /\ pc' = [pc EXCEPT ![p] = "ret"]
            /\ UNCHANGED << mu, eq >>
       ELSE /\ eq' = [eq EXCEPT ![p] = CategorizeEarthquake(regionData, cur[p])]
            /\ mu' = p
            /\ pc' = [pc EXCEPT ![p] = "store"]
            /\ ret' = ret
    /\ UNCHANGED << regionData, earthquakes, newEarthquakeChan, now, removed,
                    cur, batch, rets, newOnes, histVars >>
    /\ UNCHANGED restVars

\* a variant without the label test
NotCategorizedNever(e) == FALSE

\* a variant that tests for missing labels only, not for the sentinel
NotCategorizedEmptyOnly(e) == e.Oceano = "" \/ e.OceanoRegion = ""

\* the test that keeps records without labels out of the index
NotCategorized(e) ==
    \/ e.Oceano = "" \/ e.Oceano = "Uncategorized"
    \/ e.OceanoRegion = "" \/ e.OceanoRegion = "Uncategorized"

\* a variant that files the record under its source
InsertBySource(m, e) == Put(m, e.Source, e)

\* a variant that forgets the insertion
InsertNothing(m, e) == m

\* em.earthquakes[eq.ID] = eq
Insert(m, e) == Put(m, e.ID, e)

\* a variant that sends the record as the caller handed it over
TrySendUnlabelled(ch, e) ==
    IF Len(ch) < newEarthquakeChanCap
    THEN Append(ch, [e EXCEPT !.Oceano = "", !.OceanoRegion = ""])
    ELSE ch

\* a variant that makes room by dropping the oldest record
TrySendDisplacing(ch, e) ==
    IF Len(ch) < newEarthquakeChanCap THEN Append(ch, e) ELSE Append(Tail(ch), e)

\* select { case em.newEarthquakeChan <- eq: default: }
TrySend(ch, e) == IF Len(ch) < newEarthquakeChanCap THEN Append(ch, e) ELSE ch

\* the label test, the insertion, the notification, and the deferred Unlock
AddStore(p) ==
    /\ pc[p] = "store"
    /\ IF NotCategorized(eq[p])
       THEN /\ ret' = [ret EXCEPT ![p] = FALSE]
            /\ UNCHANGED << earthquakes, newEarthquakeChan, note, base >>
       ELSE /\ earthquakes' = Insert(earthquakes, eq[p])
            /\ newEarthquakeChan' = TrySend(newEarthquakeChan, eq[p])
            /\ note' = [note EXCEPT ![p] = IF Len(newEarthquakeChan) < newEarthquakeChanCap
                                           THEN "sent" ELSE "dropped"]
            /\ ret' = [ret EXCEPT ![p] = TRUE]
            /\ base' = [q \in Procs |-> IF q # p THEN Disturbed ELSE base[q]]
    /\ mu' = IF mu = p THEN NoOne ELSE mu
    /\ eq' = [eq EXCEPT ![p] = NoEq]
    /\ pc' = [pc EXCEPT ![p] = "ret"]
    /\ UNCHANGED << regionData, now, removed, cur, batch, rets, newOnes, fresh, gap >>
    /\ UNCHANGED restVars

(***************************************************************************)
(* CleanOld, called by the goroutine of StartCleanup on every tick         *)
(***************************************************************************)
\* a variant that also evicts the record exactly at the cutoff
BeforeOrAt(t, cutoff) == t <= cutoff

\* eq.Time.Before(cutoff)
Before(t, cutoff) == t < cutoff

\* for id, eq := range em.earthquakes { if ... { delete; removed++ } }
RECURSIVE CleanLoop(_, _, _, _)
CleanLoop(m, ids, cutoff, n) ==
    IF ids = {} THEN [index |-> m, removed |-> n]
    ELSE LET id == CHOOSE x \in ids : TRUE
         IN  IF Before(m[id].Time, cutoff)
             THEN CleanLoop(Delete(m, id), ids \ {id}, cutoff, n + 1)
             ELSE CleanLoop(m, ids \ {id}, cutoff, n)

\* the whole of CleanOld runs under the exclusive lock
CleanOld ==
    /\ mu = NoOne
    /\ LET cutoff == now - maxAge
           res == CleanLoop(earthquakes, DOMAIN earthquakes, cutoff, 0)
       IN  /\ earthquakes' = res.index
           /\ removed' = res.removed
           /\ gap' = [p \in Procs |->
                        IF pc[p] \in {"lock", "ret"} /\ cur[p].ID \in DOMAIN earthquakes
                                          /\ cur[p].ID \notin DOMAIN res.index
                        THEN TRUE ELSE gap[p]]
           /\ base' = [p \in Procs |->
                        IF res.removed > 0 THEN Disturbed ELSE base[p]]
    /\ UNCHANGED << regionData, newEarthquakeChan, mu, now, feedVars, fresh, note >>
    /\ UNCHANGED restVars

(***************************************************************************)
(* The clock                                                               *)
(***************************************************************************)
Tick ==
    /\ now < MaxNow
    /\ now' = now + 1
    /\ UNCHANGED << regionData, earthquakes, newEarthquakeChan, mu, removed,
                    feedVars, histVars >>
    /\ UNCHANGED restVars

Next ==
    \/ \E p \in Procs : Pick(p)
    \/ \E p \in Procs : Return(p)
    \/ \E p \in Procs : AddCheck(p)
    \/ \E p \in Procs : AddStore(p)
    \/ \E p \in Procs : Collect(p)
    \/ CleanOld
    \/ Tick

Spec == Init /\ [][Next]_vars

(***************************************************************************)
(* The read operations: GetAll, GetByOceano, GetByRegion, GetByTimeRange   *)
(***************************************************************************)
\* a variant with the comparison reversed
AfterReversed(t, u) == t < u

\* earthquakes[i].Time.After(earthquakes[j].Time)
After(t, u) == t > u

\* sort.Slice(earthquakes, less) with less(i, j) = After(Time_i, Time_j):
\* each element is put before the first one it is less than
RECURSIVE InsertByTime(_, _)
InsertByTime(e, s) ==
    IF s = << >> THEN << e >>
    ELSE IF After(e.Time, Head(s).Time) THEN << e >> \o s
    ELSE << Head(s) >> \o InsertByTime(e, Tail(s))

RECURSIVE SortSlice(_)
SortSlice(s) == IF s = << >> THEN << >> ELSE InsertByTime(Head(s), SortSlice(Tail(s)))

\* the orders in which a range over the map can yield the records of S
MapOrders(S) ==
    { s \in [1..Cardinality(S) -> S] : \A i, j \in 1..Cardinality(S) : i # j => s[i] # s[j] }

\* the records of the index
Records == { earthquakes[k] : k \in DOMAIN earthquakes }

\* the results a read operation can return for the records it selects: the
\* slice is filled in the map's iteration order and then sorted
Sorted(S) == { SortSlice(s) : s \in MapOrders(S) }

GetAll ==
    Sorted({ e \in Records : /\ e.Oceano # "" /\ e.Oceano # "Uncategorized"
                             /\ e.OceanoRegion # "" /\ e.OceanoRegion # "Uncategorized" })

\* a variant that compares the region label
GetByOceanoOnRegion(oceano) == Sorted({ e \in Records : e.OceanoRegion = oceano })

GetByOceano(oceano) == Sorted({ e \in Records : e.Oceano = oceano })

GetByRegion(region) == Sorted({ e \in Records : e.OceanoRegion = region })

GetByTimeRange(start, end) ==
    Sorted({ e \in Records : After(e.Time, start) /\ Before(e.Time, end) })

(***************************************************************************)
(* GetStats                                                                *)
(***************************************************************************)
\* a variant that sets the counter of a key instead of incrementing it
CountWhereSet(m, field, value) == 1

\* byOceano[eq.Oceano]++ over the whole map: the number of records whose
\* field has the value
CountWhere(m, field, value) ==
    Cardinality({ k \in DOMAIN m : m[k][field] = value })

\* one of the maps by_oceano, by_region, by_source: a key for every value
\* that occurs
CountBy(m, field) ==
    [ value \in { m[k][field] : k \in DOMAIN m } |-> CountWhere(m, field, value) ]

\* the whole of GetStats runs under the shared lock
GetStats ==
    [ total     |-> Cardinality(DOMAIN earthquakes),
      by_oceano |-> CountBy(earthquakes, "Oceano"),
      by_region |-> CountBy(earthquakes, "OceanoRegion"),
      by_source |-> CountBy(earthquakes, "Source") ]

\* em.mu.RLock() returns only when nobody holds the exclusive lock
RLockFree == mu = NoOne

(***************************************************************************)
(* A manager whose new-event channel nobody has read for a long time: one  *)
(* more record fits.  The backlog is what 99 rounds of "SGC reports e1,    *)
(* CleanOld evicts it" leave behind.                                       *)
(***************************************************************************)
Backlog ==
    [ i \in 1..(newEarthquakeChanCap - 1) |->
        CategorizeEarthquake(LoadedRegionData, RawEarthquake("e1", Point(1, 5), 0, "SGC")) ]

InitFull == InitWith(Backlog)

SpecFull == InitFull /\ [][Next]_vars

(***************************************************************************)
(* Vocabulary of the properties                                            *)
(***************************************************************************)
\* both labels are present and neither is the sentinel
ValidLabels(e) ==
    /\ e.Oceano \notin {"", "Uncategorized"}
    /\ e.OceanoRegion \notin {"", "Uncategorized"}

\* the record as the classifier labels it
Labelled(r) == CategorizeEarthquake(regionData, r)
LabelledSeq(s) == [i \in 1..Len(s) |-> Labelled(s[i])]

\* every polygon of the loaded configuration
ConfiguredPolygons ==
    { regionData.LatlonCPWorld, regionData.LatlonPacificoLocal,
      regionData.LatlonPacificoRegional, regionData.LatlonPacificoLocal20Km,
      regionData.LatlonCaribeLocal, regionData.LatlonCaribeLocalInsular }
    \cup { regionData.LatlonCCWorld[i] : i \in 1..Len(regionData.LatlonCCWorld) }
    \cup { regionData.LatlonCaribeRegional[i] : i \in 1..Len(regionData.LatlonCaribeRegional) }

\* the configuration is loaded and the record's point is in none of its polygons
OutsideEvery(e) ==
    /\ regionData # NilRegionData
    /\ \A poly \in ConfiguredPolygons :
          ~PointInPolygon(Point(e.Latitude, e.Longitude), poly)

\* names and instants a caller may query with
QueryNames == {"Pacifico", "Caribe", "local", "regional", "lejano", "Uncategorized", ""}
QueryInstants ==
    UNION { { FeedTime(src, id) - 1, FeedTime(src, id) + 1 } : src \in Procs, id \in IDs }

\* every result one of the four read operations can return in this state
AllResults ==
    GetAll
    \cup UNION { GetByOceano(n) : n \in QueryNames }
    \cup UNION { GetByRegion(n) : n \in QueryNames }
    \cup UNION { GetByTimeRange(a, b) : a \in QueryInstants, b \in QueryInstants }

\* s is t with some elements left out
RECURSIVE IsSubSeq(_, _)
IsSubSeq(s, t) ==
    IF s = << >> THEN TRUE
    ELSE IF t = << >> THEN FALSE
    ELSE IF Head(s) = Head(t) THEN IsSubSeq(Tail(s), Tail(t))
    ELSE IsSubSeq(s, Tail(t))

\* the elements of b whose call returned true, in the order of b
RECURSIVE Accepted(_, _)
Accepted(b, r) ==
    IF b = << >> THEN << >>
    ELSE (IF Head(r) THEN << Head(b) >> ELSE << >>) \o Accepted(Tail(b), Tail(r))

\* the records of the channel that feed p put there, oldest first
FromFeed(p) == SelectSeq(newEarthquakeChan, LAMBDA e : e.Source = p)

\* a step of p inside AddEarthquake
CallStep(p) == pc[p] \in {"lock", "store"} /\ pc'[p] # pc[p]

(***************************************************************************)
(* C1: whatever the interleaving of the feeds and of the eviction runs,    *)
(* the index holds at most one record per identifier and every record is   *)
(* stored under its own identifier.                                        *)
(***************************************************************************)
C1_OneRecordPerIdentifier ==
    /\ \A k \in DOMAIN earthquakes : earthquakes[k].ID = k
    /\ \A k1, k2 \in DOMAIN earthquakes :
          earthquakes[k1].ID = earthquakes[k2].ID => k1 = k2
    /\ \A id \in IDs :
          Cardinality({ e \in Records : e.ID = id }) <= 1

\* both feeds have a record in the index and an eviction run has removed one
C1_Witness ==
    /\ removed > 0
    /\ \E k1, k2 \in DOMAIN earthquakes :
          /\ k1 # k2
          /\ earthquakes[k1].Source # earthquakes[k2].Source

(***************************************************************************)
(* C2 as stated: two calls of AddEarthquake that overlap, with the same    *)
(* identifier, not stored when either was called, location classifiable:  *)
(* exactly one returns true and exactly one record is put on the channel;  *)
(* and the critical sections never overlap.                                *)
(***************************************************************************)
Rivals(p, q) ==
    /\ p # q
    /\ pc[p] = "ret" /\ pc[q] = "ret"
    /\ cur[p].ID = cur[q].ID
    /\ fresh[p] /\ fresh[q]
    /\ ValidLabels(Labelled(cur[p])) /\ ValidLabels(Labelled(cur[q]))

MutualExclusion ==
    /\ \A p, q \in Procs : (pc[p] = "store" /\ pc[q] = "store") => p = q
    /\ \A p \in Procs : pc[p] = "store" <=> mu = p

C3_DuplicateRejected ==
    [][ \A p \in Procs :
          (CallStep(p) /\ pc[p] = "lock" /\ cur[p].ID \in DOMAIN earthquakes) =>
             /\ pc'[p] = "ret" /\ ret'[p] = FALSE
             /\ earthquakes' = earthquakes
             /\ GetCount' = GetCount
             /\ newEarthquakeChan' = newEarthquakeChan ]_vars

\* a call with a stored identifier and different content has returned false
C3_Witness ==
    \E p \in Procs :
        /\ pc[p] = "ret" /\ ~ret[p] /\ ~fresh[p]
        /\ ValidLabels(Labelled(cur[p]))
        /\ cur[p].ID \in DOMAIN earthquakes
        /\ earthquakes[cur[p].ID].Time # cur[p].Time
        /\ earthquakes[cur[p].ID].Source # cur[p].Source

(***************************************************************************)
(* C4: every record of the index has a basin and a region label, both      *)
(* non-empty and not "Uncategorized"; and AddEarthquake of a new           *)
(* identifier that the classifier gives two such labels stores the record. *)
(***************************************************************************)
C4_StoredIffLabelled ==
    /\ [](\A k \in DOMAIN earthquakes : ValidLabels(earthquakes[k]))
    /\ [][ \A p \in Procs :
             (CallStep(p) /\ cur[p].ID \notin DOMAIN earthquakes
                          /\ ValidLabels(Labelled(cur[p]))) =>
                \/ pc[p] = "lock" /\ pc'[p] = "store"
                \/ /\ pc[p] = "store" /\ pc'[p] = "ret" /\ ret'[p] = TRUE
                   /\ cur[p].ID \in DOMAIN earthquakes'
                   /\ earthquakes'[cur[p].ID] = Labelled(cur[p]) ]_vars

\* a call has stored its record, labelled
C4_Witness ==
    \E p \in Procs :
        /\ pc[p] = "ret" /\ ret[p]
        /\ cur[p].ID \in DOMAIN earthquakes
        /\ earthquakes[cur[p].ID] = Labelled(cur[p])
        /\ earthquakes[cur[p].ID].Oceano = "Pacifico"

(***************************************************************************)
(* C5: AddEarthquake of a record whose point is outside every configured   *)
(* polygon returns false and leaves index, count and channel as they were; *)
(* no read operation ever returns such a record.                           *)
(***************************************************************************)
C5_UnclassifiedExcluded ==
    /\ [](\A r \in AllResults : \A i \in 1..Len(r) : ~OutsideEvery(r[i]))
    /\ [][ \A p \in Procs :
             (CallStep(p) /\ OutsideEvery(cur[p])) =>
                /\ earthquakes' = earthquakes
                /\ GetCount' = GetCount
                /\ newEarthquakeChan' = newEarthquakeChan
                /\ pc'[p] = "ret" => ret'[p] = FALSE ]_vars

\* a call with a new identifier and a point outside every polygon has
\* returned false, and the identifier is not in the index
C5_Witness ==
    \E p \in Procs :
        /\ pc[p] = "ret" /\ ~ret[p] /\ fresh[p]
        /\ OutsideEvery(cur[p])
        /\ cur[p].ID \notin DOMAIN earthquakes
        /\ earthquakes # EmptyMap

(***************************************************************************)
(* C6: AddEarthquake never waits for the channel.  When the channel holds  *)
(* newEarthquakeChanCap records the call still stores the record and       *)
(* returns true, and the channel keeps exactly the records it had.         *)
(***************************************************************************)
C6_FullChannelDoesNotBlock ==
    /\ [](\A p \in Procs : pc[p] = "store" => ENABLED AddStore(p))
    /\ [][ \A p \in Procs :
             (CallStep(p) /\ pc[p] = "store"
                          /\ Len(newEarthquakeChan) = newEarthquakeChanCap
                          /\ ValidLabels(eq[p])) =>
                /\ pc'[p] = "ret" /\ ret'[p] = TRUE
                /\ cur[p].ID \in DOMAIN earthquakes'
                /\ earthquakes'[cur[p].ID] = eq[p]
                /\ newEarthquakeChan' = newEarthquakeChan ]_vars

\* a call has found the channel full, stored its record and returned true
C6_Witness ==
    \E p \in Procs :
        /\ pc[p] = "ret" /\ ret[p] /\ note[p] = "dropped"
        /\ Len(newEarthquakeChan) = newEarthquakeChanCap
        /\ cur[p].ID \in DOMAIN earthquakes

(***************************************************************************)
(* C7 as stated: AddEarthquakes returns exactly the records of its input   *)
(* for which AddEarthquake returned true, in the order of the input, and   *)
(* these reach the channel in the same relative order; a second record     *)
(* with an identifier seen earlier in the same batch is never among them.  *)
(***************************************************************************)
BetweenCalls(p) == pc[p] \in {"loop", "done"}

ReturnsAcceptedInOrder(p) ==
    /\ Len(rets[p]) = Len(batch[p])
    /\ newOnes[p] = Accepted(batch[p], rets[p])
    /\ IsSubSeq(FromFeed(p), LabelledSeq(newOnes[p]))
    /\ Len(newEarthquakeChan) < newEarthquakeChanCap
          => FromFeed(p) = LabelledSeq(newOnes[p])

C7_BatchOrderSeenExcluded ==
    \A p \in Procs : BetweenCalls(p) =>
        /\ ReturnsAcceptedInOrder(p)
        /\ \A i, j \in 1..Len(rets[p]) :
              (i < j /\ batch[p][i].ID = batch[p][j].ID) => ~rets[p][j]

(***************************************************************************)
(* C7 as amended: the same, except that the second record is excluded when *)
(* the earlier record with its identifier was accepted and no eviction run *)
(* or other feed has changed the index since the batch began.              *)
(***************************************************************************)
C7_BatchOrderAcceptedExcluded ==
    \A p \in Procs : BetweenCalls(p) =>
        /\ ReturnsAcceptedInOrder(p)
        /\ \A i, j \in 1..Len(rets[p]) :
              (i < j /\ batch[p][i].ID = batch[p][j].ID
                     /\ rets[p][i] /\ base[p] # Disturbed) => ~rets[p][j]

\* a batch of three: accepted, repeated identifier rejected, accepted
C7_Witness ==
    \E p \in Procs :
        /\ pc[p] = "done" /\ base[p] # Disturbed
        /\ Len(batch[p]) = MaxBatch
        /\ rets[p][1] /\ ~rets[p][2] /\ rets[p][MaxBatch]
        /\ batch[p][1].ID = batch[p][2].ID
        /\ Len(newOnes[p]) = 2
        /\ FromFeed(p) = LabelledSeq(newOnes[p])

(***************************************************************************)
(* C8: a batch with a record whose identifier is already in the index, a   *)
(* new classifiable record and a new unclassifiable record, run with       *)
(* nothing else acting on the manager and room in the channel: the count   *)
(* grows by the length of the result and the channel receives exactly the  *)
(* accepted records.                                                       *)
(***************************************************************************)
C8_BatchCountAndStream ==
    \A p \in Procs :
        (pc[p] = "done" /\ base[p] # Disturbed
                        /\ Len(newEarthquakeChan) < newEarthquakeChanCap) =>
            /\ GetCount = base[p].count + Len(newOnes[p])
            /\ Len(newEarthquakeChan) = base[p].stream + Len(newOnes[p])
            /\ SubSeq(newEarthquakeChan, base[p].stream + 1, Len(newEarthquakeChan))
                  = LabelledSeq(newOnes[p])

\* the batch of the claim: present identifier, new unclassifiable record,
\* new classifiable record
C8_Witness ==
    \E p \in Procs :
        /\ pc[p] = "done" /\ base[p] # Disturbed
        /\ Len(newEarthquakeChan) < newEarthquakeChanCap
        /\ base[p].count = 1
        /\ Len(batch[p]) = MaxBatch
        /\ ~rets[p][1] /\ ValidLabels(Labelled(batch[p][1]))
        /\ ~rets[p][2] /\ OutsideEvery(batch[p][2])
        /\ batch[p][2].ID # batch[p][1].ID
        /\ rets[p][MaxBatch] /\ batch[p][MaxBatch].ID = batch[p][2].ID
        /\ Len(newOnes[p]) = 1
        /\ GetCount = 2

(***************************************************************************)
(* C9: GetAll returns every record of the index exactly once, and every    *)
(* read operation returns its records newest first (no record is followed  *)
(* by a newer one).                                                        *)
(***************************************************************************)
Descending(r) == \A i \in 1..(Len(r) - 1) : r[i].Time >= r[i + 1].Time

ExactlyOnce(r, S) ==
    /\ Len(r) = Cardinality(S)
    /\ { r[i] : i \in 1..Len(r) } = S

C9_NewestFirst ==
    /\ GetAll # {}
    /\ \A r \in GetAll :
          ExactlyOnce(r, { earthquakes[k] : k \in DOMAIN earthquakes })
    /\ \A r \in AllResults : Descending(r)

\* the older of two records was inserted first and both are still stored
C9_Witness ==
    \E p \in Procs :
        /\ Len(newOnes[p]) = 2
        /\ newOnes[p][1].Time < newOnes[p][2].Time
        /\ \A i \in 1..2 : newOnes[p][i].ID \in DOMAIN earthquakes
        /\ \E r \in GetAll : Len(r) = 2 /\ r[1].Time > r[2].Time

(***************************************************************************)
(* C10: CleanOld removes exactly the records whose Time is strictly before *)
(* now - maxAge (the record of eight days ago goes, those of six and of    *)
(* exactly seven days ago stay), returns how many it removed, leaves the   *)
(* other records as they were and puts nothing on the channel.             *)
(***************************************************************************)
Expired == { k \in DOMAIN earthquakes : earthquakes[k].Time < now - maxAge }

C10_EvictsStrictlyOlder ==
    [][ CleanOld =>
           /\ DOMAIN earthquakes' = DOMAIN earthquakes \ Expired
           /\ \A k \in DOMAIN earthquakes' : earthquakes'[k] = earthquakes[k]
           /\ removed' = Cardinality(Expired)
           /\ newEarthquakeChan' = newEarthquakeChan
           /\ \A k \in DOMAIN earthquakes :
                 /\ earthquakes[k].Time = now - maxAge - 1 => k \notin DOMAIN earthquakes'
                 /\ earthquakes[k].Time = now - maxAge + 1 => k \in DOMAIN earthquakes'
                 /\ earthquakes[k].Time = now - maxAge => k \in DOMAIN earthquakes' ]_vars

\* an eviction run has removed the record of eight days ago and kept the
\* record of six days ago
C10_Witness ==
    /\ removed = 1
    /\ Cardinality(DOMAIN earthquakes) = 1
    /\ \E k \in DOMAIN earthquakes : earthquakes[k].Time = now - maxAge + 1
    /\ \E p \in Procs : \E i \in 1..Len(newOnes[p]) :
          /\ newOnes[p][i].Time = now - maxAge - 1
          /\ newOnes[p][i].ID \notin DOMAIN earthquakes

(***************************************************************************)
(* C11: the index has bounded age: every record in it has a Time no        *)
(* earlier than now - maxAge - cleanupInterval, whatever Time the records  *)
(* handed to AddEarthquake carry.  Stated for the steps during which the   *)
(* clock stands still, so that no run of CleanOld falls due in between: an *)
(* index within the bound stays within it.                                 *)
(***************************************************************************)
BoundedAge ==
    \A k \in DOMAIN earthquakes :
        earthquakes[k].Time >= now - maxAge - cleanupInterval

C11_BoundedAge ==
    /\ BoundedAge
    /\ [][ (now' = now /\ BoundedAge) => BoundedAge' ]_vars

(***************************************************************************)
(* A caller of geometry.CategorizeEarthquake, for any region document: the *)
(* document is either not loaded or gives every polygon one of two places, *)
(* so that every combination of memberships of a point occurs.             *)
(***************************************************************************)
Here == Rect(0, 0, 4, 4)
There == Rect(6, 6, 10, 10)

\* a polygon that may also be absent from the document
OnePolygon == { Here, There }
MaybePolygon == { Here, There, << >> }
\* a list of polygons
SomePolygons == { << >>, << Here >>, << There >>, << There, Here >> }

RegionDocuments ==
    [ LatlonCPWorld            : OnePolygon,
      LatlonPacificoLocal      : OnePolygon,
      LatlonPacificoRegional   : MaybePolygon,
      LatlonPacificoLocal20Km  : MaybePolygon,
      LatlonCCWorld            : SomePolygons,
      LatlonCaribeRegional     : SomePolygons,
      LatlonCaribeLocal        : OnePolygon,
      LatlonCaribeLocalInsular : OnePolygon ]

\* the records handed in: a point in Here or a point in There, with the
\* label fields empty as the fetchers leave them, or filled in by the caller
GivenRecords ==
    { [ RawEarthquake("e1", pt, 0, "USGS") EXCEPT !.Oceano = lab[1], !.OceanoRegion = lab[2] ] :
        pt \in { Point(2, 2), Point(8, 8) },
        lab \in { << "", "" >>, << "Caribe", "local" >> } }

InitClassify ==
    /\ regionData \in RegionDocuments \cup { NilRegionData }
    /\ ManagerInit(<< >>)
    /\ given \in GivenRecords
    /\ subject = NoEq
    /\ point = Point(0, 0) /\ polygon = << >> /\ inside = Pending
    /\ HubInit
    /\ TasksIdle

\* geometry.CategorizeEarthquake(&eq)
Categorize ==
    /\ subject = NoEq
    /\ subject' = CategorizeEarthquake(regionData, given)
    /\ UNCHANGED << mgrVars, feedVars, histVars, hubVars, taskVars, given, point,
                    polygon, inside >>

NextClassify == Categorize

SpecClassify == InitClassify /\ [][NextClassify]_vars

(***************************************************************************)
(* The decision list of the classifier, as a table: the membership that    *)
(* makes a step match, and the labels the step gives.                      *)
(***************************************************************************)
In(e, poly) == PointInPolygon(Point(e.Latitude, e.Longitude), poly)
InSome(e, polys) == \E k \in 1..Len(polys) : In(e, polys[k])

StepMatches(rd, e, i) ==
    CASE i = 1 -> In(e, rd.LatlonCPWorld)
      [] i = 2 -> In(e, rd.LatlonPacificoLocal)
      [] i = 3 -> In(e, rd.LatlonPacificoRegional)
      [] i = 4 -> In(e, rd.LatlonPacificoLocal20Km)
      [] i = 5 -> InSome(e, rd.LatlonCCWorld)
      [] i = 6 -> InSome(e, rd.LatlonCaribeRegional)
      [] i = 7 -> In(e, rd.LatlonCaribeLocal) \/ In(e, rd.LatlonCaribeLocalInsular)
      [] i = 8 -> TRUE

StepLabels(rd, e, i) ==
    CASE i = 1 -> << "Pacifico",
                     IF In(e, rd.LatlonPacificoLocal) THEN "local"
                     ELSE IF In(e, rd.LatlonPacificoRegional) THEN "regional"
                     ELSE "lejano" >>
      [] i = 2 -> << "Pacifico", "local" >>
      [] i = 3 -> << "Pacifico", "regional" >>
      [] i = 4 -> << "Pacifico", "local" >>
      [] i = 5 -> << "Caribe", "lejano" >>
      [] i = 6 -> << "Caribe", "regional" >>
      [] i = 7 -> << "Caribe", "local" >>
      [] i = 8 -> << "Uncategorized", "Uncategorized" >>

FirstMatch(rd, e) ==
    CHOOSE i \in 1..8 :
        StepMatches(rd, e, i) /\ \A j \in 1..(i - 1) : ~StepMatches(rd, e, j)

Labels(e) == << e.Oceano, e.OceanoRegion >>

\* CategorizeEarthquake has returned
Categorized == subject # NoEq

(***************************************************************************)
(* C12: with a region document loaded, CategorizeEarthquake gives the      *)
(* labels of the first step of the 8-step list that matches, for every     *)
(* combination of memberships, and changes nothing else in the record; a   *)
(* point in the Pacific local polygon and in a Caribbean regional polygon  *)
(* is always Pacifico/local.                                               *)
(***************************************************************************)
C12_FirstMatchWins ==
    (Categorized /\ regionData # NilRegionData) =>
        /\ Labels(subject) = StepLabels(regionData, given, FirstMatch(regionData, given))
        /\ subject = [ given EXCEPT !.Oceano = subject.Oceano,
                                    !.OceanoRegion = subject.OceanoRegion ]
        /\ ( In(given, regionData.LatlonPacificoLocal)
             /\ InSome(given, regionData.LatlonCaribeRegional) )
              => Labels(subject) = << "Pacifico", "local" >>

\* the fixture of the precedence case, outside the world belt: the point
\* is in the Pacific local polygon, in the Pacific regional polygon and in
\* the second polygon of the Caribbean regional list
C12_Witness ==
    /\ Categorized /\ regionData # NilRegionData
    /\ ~In(given, regionData.LatlonCPWorld)
    /\ In(given, regionData.LatlonPacificoLocal)
    /\ In(given, regionData.LatlonPacificoRegional)
    /\ Len(regionData.LatlonCaribeRegional) = 2
    /\ In(given, regionData.LatlonCaribeRegional[2])
    /\ Labels(subject) = << "Pacifico", "local" >>

(***************************************************************************)
(* C13: when the region document was never loaded, CategorizeEarthquake    *)
(* leaves every record unclassified in basin and in region, whatever its   *)
(* point and whatever labels it carried when handed in.  A label counts as *)
(* unclassified when it is the sentinel or empty.                          *)
(***************************************************************************)
Unclassified == { "Uncategorized", "" }

C13_NotLoadedGivesUnclassified ==
    (Categorized /\ regionData = NilRegionData) =>
        /\ subject.Oceano \in Unclassified
        /\ subject.OceanoRegion \in Unclassified

(***************************************************************************)
(* A caller of geometry.PointInPolygon: the square of side SquareSide or a *)
(* polygon of fewer than three vertices, and an integer point in or around *)
(* the square.                                                             *)
(***************************************************************************)
Square == Rect(0, 0, SquareSide, SquareSide)

Degenerate ==
    { << >>,
      << Point(0, 0) >>,
      << Point(0, 0), Point(SquareSide, SquareSide) >>,
      << Point(0, SquareSide), Point(SquareSide, 0) >> }

Grid == (0 - GridMargin) .. (SquareSide + GridMargin)

InitPolygon ==
    /\ regionData = LoadedRegionData
    /\ ManagerInit(<< >>)
    /\ given = NoEq /\ subject = NoEq
    /\ polygon \in { Square } \cup Degenerate
    /\ point \in { Point(lat, lon) : lat \in Grid, lon \in Grid }
    /\ inside = Pending
    /\ HubInit
    /\ TasksIdle

\* inside := PointInPolygon(point, polygon)
Locate ==
    /\ inside = Pending
    /\ inside' = Answer(PointInPolygon(point, polygon))
    /\ UNCHANGED << mgrVars, feedVars, histVars, hubVars, taskVars, given, subject,
                    point, polygon >>

NextPolygon == Locate

SpecPolygon == InitPolygon /\ [][NextPolygon]_vars

(***************************************************************************)
(* C14: PointInPolygon is false for every point when the polygon has fewer *)
(* than three vertices; for the square it is true for every integer point  *)
(* strictly inside and false for every integer point strictly outside the  *)
(* bounding box; the answer is the parity of the number of edges crossed.  *)
(***************************************************************************)
StrictlyInside ==
    /\ 0 < point.Lat /\ point.Lat < SquareSide
    /\ 0 < point.Lon /\ point.Lon < SquareSide

OutsideBox ==
    \/ point.Lat < 0 \/ point.Lat > SquareSide
    \/ point.Lon < 0 \/ point.Lon > SquareSide

\* the edges of the closed polygon crossed by the ray from the point
Crossed ==
    { i \in 1..Len(polygon) :
        rayIntersectsSegment(point, polygon[i], polygon[(i % Len(polygon)) + 1]) }

C14_PointInPolygon ==
    inside # Pending =>
        /\ Len(polygon) < 3 => inside = Answer(FALSE)
        /\ (polygon = Square /\ StrictlyInside) => inside = Answer(TRUE)
        /\ (polygon = Square /\ OutsideBox) => inside = Answer(FALSE)
        /\ Len(polygon) >= 3 => inside = Answer(Cardinality(Crossed) % 2 = 1)

\* the centre of the square has been found inside it
C14_Witness ==
    /\ polygon = Square
    /\ point = Point(SquareSide \div 2, SquareSide \div 2)
    /\ StrictlyInside
    /\ inside = Answer(TRUE)

(***************************************************************************)
(* C15: every result of GetStats, also one taken while feeds are inside    *)
(* AddEarthquakes and eviction runs come in between, is consistent: total  *)
(* is the sum of the counts by basin, of the counts by region and of the   *)
(* counts by source, and is what GetCount and the length of GetAll give in *)
(* the same state.                                                         *)
(***************************************************************************)
RECURSIVE SumOf(_)
SumOf(f) ==
    IF DOMAIN f = {} THEN 0
    ELSE LET x == CHOOSE y \in DOMAIN f : TRUE
         IN  f[x] + SumOf([ y \in DOMAIN f \ {x} |-> f[y] ])

C15_StatsConsistent ==
    RLockFree =>
        LET stats == GetStats
        IN  /\ stats.total = SumOf(stats.by_oceano)
            /\ stats.total = SumOf(stats.by_region)
            /\ stats.total = SumOf(stats.by_source)
            /\ stats.total = GetCount
            /\ \A r \in GetAll : Len(r) = stats.total

\* a snapshot of two records with one label, taken while a feed is inside
\* a batch and after an eviction run has removed a record
C15_Witness ==
    /\ RLockFree
    /\ GetStats.total = 2
    /\ \E o \in DOMAIN GetStats.by_oceano : GetStats.by_oceano[o] = 2
    /\ \E p \in Procs : pc[p] = "lock"
    /\ removed > 0

(***************************************************************************)
(* The websocket hub: Hub.Run, BroadcastEarthquake, ServeWs, readPump,     *)
(* writePump.  A message is the number of its call of BroadcastEarthquake. *)
(* The hub starts with one client, c1, registered sendCap - 1 broadcasts   *)
(* ago, whose writePump has not received anything yet; the other clients   *)
(* have not connected.                                                     *)
(***************************************************************************)
Backlogged == "c1"
SendBacklog == [ i \in 1..(sendCap - 1) |-> i ]

InitHub ==
    /\ regionData = LoadedRegionData
    /\ ManagerInit(<< >>)
    /\ GeoIdle
    /\ TasksIdle
    /\ clients = { Backlogged }
    /\ broadcast = << >>
    /\ send = [c \in Clients |-> IF c = Backlogged THEN SendBacklog ELSE << >>]
    /\ closed = [c \in Clients |-> FALSE]
    /\ crashed = FALSE
    /\ serve = [c \in Clients |-> IF c = Backlogged THEN "served" ELSE "idle"]
    /\ reader = [c \in Clients |-> IF c = Backlogged THEN "reading" ELSE "off"]
    /\ writer = [c \in Clients |-> IF c = Backlogged THEN "waiting" ELSE "off"]
    /\ hand = [c \in Clients |-> << >>]
    /\ conn = [c \in Clients |-> "open"]
    /\ frames = [c \in Clients |-> << >>]
    /\ submitted = sendCap - 1
    /\ processed = SendBacklog
    /\ queued = [c \in Clients |-> IF c = Backlogged THEN SendBacklog ELSE << >>]
    /\ departed = [c \in Clients |-> "no"]

NotHub == << mgrVars, feedVars, histVars, geoVars, taskVars >>

\* a variant of the unregister case that leaves the channel open
CloseSendForgotten(c) ==
    /\ closed' = closed
    /\ crashed' = crashed

\* close(client.send): closing a closed channel panics
CloseSend(c) ==
    /\ closed' = [closed EXCEPT ![c] = TRUE]
    /\ crashed' = (crashed \/ closed[c])

\* ServeWs up to its send on h.register: the client exists, with an empty
\* send channel, and is in no map
AfterServeWs(c) == clients

ServeWs(c) ==
    /\ ~crashed
    /\ serve[c] = "idle"
    /\ serve' = [serve EXCEPT ![c] = "registering"]
    /\ clients' = AfterServeWs(c)
    /\ UNCHANGED << NotHub, broadcast, send, closed, crashed, reader, writer, hand,
                    conn, frames, submitted, processed, queued, departed >>

\* case client := <-h.register, and the two go statements of ServeWs
HubRegister(c) ==
    /\ ~crashed
    /\ serve[c] = "registering"
    /\ clients' = clients \cup {c}
    /\ serve' = [serve EXCEPT ![c] = "served"]
    /\ writer' = [writer EXCEPT ![c] = "waiting"]
    /\ reader' = [reader EXCEPT ![c] = "reading"]
    /\ UNCHANGED << NotHub, broadcast, send, closed, crashed, hand, conn, frames,
                    submitted, processed, queued, departed >>

\* a variant without the membership test
PresentAlways(c) == TRUE

\* if _, ok := h.clients[client]; ok
Present(c) == c \in clients

\* case client := <-h.unregister, and c.conn.Close() of readPump's defer
HubUnregister(c) ==
    /\ ~crashed
    /\ reader[c] = "unregistering"
    /\ IF Present(c)
       THEN /\ clients' = clients \ {c}
            /\ CloseSend(c)
            /\ departed' = [departed EXCEPT ![c] = "unregistered"]
       ELSE UNCHANGED << clients, closed, crashed, departed >>
    /\ reader' = [reader EXCEPT ![c] = "exited"]
    /\ conn' = [conn EXCEPT ![c] = "closed"]
    /\ UNCHANGED << NotHub, broadcast, send, serve, writer, hand, frames,
                    submitted, processed, queued >>

\* a variant that finds room in every channel
HasRoomAlways(q) == TRUE

\* case client.send <- message: is ready when the buffer has room
HasRoom(q) == Len(q) < sendCap

\* a variant that loses the message
EnqueueLost(q, m) == q

\* a variant that puts the message in front of the buffered ones
EnqueueInFront(q, m) == << m >> \o q

\* client.send <- message
Enqueue(q, m) == Append(q, m)

\* a variant of the default case that closes the channel and keeps the client
EvictKeeping(cs, c) == cs

\* a variant of the default case that drops every client
EvictAlsoOthers(cs, c) == {}

\* delete(h.clients, client)
Evict(cs, c) == cs \ {c}

RECURSIVE EvictAll(_, _)
EvictAll(cs, full) ==
    IF full = {} THEN cs
    ELSE LET c == CHOOSE x \in full : TRUE
         IN  EvictAll(Evict(cs, c), full \ {c})

\* a variant without the default case: the send waits for room
SelectReadyWhenRoom(full) == full = {}

\* select { case client.send <- message: ... default: ... }: with a default
\* case the select never waits
SelectReady(full) == TRUE

\* case message := <-h.broadcast: for client := range h.clients { select { ... } }
\* a send on a closed channel panics
HubBroadcast ==
    /\ ~crashed
    /\ broadcast # << >>
    /\ LET message == Head(broadcast)
           room == { c \in clients : HasRoom(send[c]) }
           full == clients \ room
       IN  /\ SelectReady(full)
           /\ broadcast' = Tail(broadcast)
           /\ send' = [c \in Clients |->
                         IF c \in room /\ ~closed[c] THEN Enqueue(send[c], message) ELSE send[c]]
           /\ queued' = [c \in Clients |->
                         IF c \in room /\ ~closed[c] THEN Append(queued[c], message) ELSE queued[c]]
           /\ clients' = EvictAll(clients, full)
           /\ closed' = [c \in Clients |-> closed[c] \/ c \in full]
           /\ crashed' = \E c \in clients : closed[c]
           /\ departed' = [c \in Clients |->
                           IF c \in full THEN "evicted" ELSE departed[c]]
           /\ processed' = Append(processed, message)
    /\ UNCHANGED << NotHub, serve, reader, writer, hand, conn, frames, submitted >>

\* BroadcastEarthquake: h.broadcast <- data waits for room in the buffer
BroadcastEarthquake ==
    /\ ~crashed
    /\ submitted < sendCap - 1 + MaxBroadcasts
    /\ Len(broadcast) < broadcastCap
    /\ broadcast' = Append(broadcast, submitted + 1)
    /\ submitted' = submitted + 1
    /\ UNCHANGED << NotHub, clients, send, closed, crashed, serve, reader, writer,
                    hand, conn, frames, processed, queued, departed >>

DataFrame(ms) == [kind |-> "data", payloads |-> ms]
CloseFrame == [kind |-> "close", payloads |-> << >>]

\* writePump: case message, ok := <-c.send.  With ok the message is in
\* hand; without, the close frame is written and the pump returns
\* (c.conn.Close() in its defer)
\* a variant of writePump's defer that leaves the connection open
ConnCloseForgotten(cn) == cn

\* writePump's defer: c.conn.Close()
ConnClose(cn) == "closed"

\* a variant in which a closed channel yields nothing more
ReceiveOkUntilClosed(q, cl) == q # << >> /\ ~cl

\* message, ok := <-c.send: ok while a buffered message remains, also after
\* close(c.send)
ReceiveOk(q, cl) == q # << >>

WriterReceive(c) ==
    /\ ~crashed
    /\ writer[c] = "waiting"
    /\ IF ReceiveOk(send[c], closed[c])
       THEN /\ hand' = [hand EXCEPT ![c] = << Head(send[c]) >>]
            /\ send' = [send EXCEPT ![c] = Tail(@)]
            /\ writer' = [writer EXCEPT ![c] = "writing"]
            /\ UNCHANGED << frames, conn >>
       ELSE /\ closed[c]
            /\ frames' = [frames EXCEPT ![c] =
                            IF conn[c] = "open" THEN Append(@, CloseFrame) ELSE @]
            /\ writer' = [writer EXCEPT ![c] = "exited"]
            /\ conn' = [conn EXCEPT ![c] = ConnClose(@)]
            /\ UNCHANGED << hand, send >>
    /\ UNCHANGED << NotHub, clients, broadcast, closed, crashed, serve, reader,
                    submitted, processed, queued, departed >>

\* writePump: NextWriter, w.Write(message), n := len(c.send), the n further
\* receives, w.Close(): one frame with everything received
WriterFlush(c) ==
    /\ ~crashed
    /\ writer[c] = "writing"
    /\ conn[c] = "open"
    /\ frames' = [frames EXCEPT ![c] = Append(@, DataFrame(hand[c] \o send[c]))]
    /\ send' = [send EXCEPT ![c] = << >>]
    /\ hand' = [hand EXCEPT ![c] = << >>]
    /\ writer' = [writer EXCEPT ![c] = "waiting"]
    /\ UNCHANGED << NotHub, clients, broadcast, closed, crashed, serve, reader, conn,
                    submitted, processed, queued, departed >>

\* writePump: NextWriter or w.Close() returns an error (the connection is
\* closed, or the peer does not take the frame within writeWait): the pump
\* returns with what it had received, c.conn.Close() in its defer
WriterFail(c) ==
    /\ ~crashed
    /\ writer[c] = "writing"
    /\ \E drained \in { << >>, send[c] } :
          send' = [send EXCEPT ![c] = SubSeq(@, Len(drained) + 1, Len(@))]
    /\ hand' = [hand EXCEPT ![c] = << >>]
    /\ writer' = [writer EXCEPT ![c] = "exited"]
    /\ conn' = [conn EXCEPT ![c] = ConnClose(@)]
    /\ UNCHANGED << NotHub, clients, broadcast, closed, crashed, serve, reader, frames,
                    submitted, processed, queued, departed >>

\* writePump: case <-ticker.C, and WriteMessage(websocket.PingMessage, nil)
\* returns an error: the pump returns, c.conn.Close() in its defer.  A ping
\* that is written changes nothing here: frames holds data and close frames
WriterPingFail(c) ==
    /\ ~crashed
    /\ writer[c] = "waiting"
    /\ writer' = [writer EXCEPT ![c] = "exited"]
    /\ conn' = [conn EXCEPT ![c] = ConnClose(@)]
    /\ UNCHANGED << NotHub, clients, broadcast, send, closed, crashed, serve, reader,
                    hand, frames, submitted, processed, queued, departed >>

\* a variant of readPump's defer that deletes the client itself
AfterReadErrorDeletes(c) == clients \ {c}

\* readPump: ReadMessage returns an error (the peer has gone, the deadline
\* has passed, or the connection is closed): break, and the deferred
\* c.hub.unregister <- c waits for the hub
AfterReadError(c) == clients

ReaderFail(c) ==
    /\ ~crashed
    /\ reader[c] = "reading"
    /\ reader' = [reader EXCEPT ![c] = "unregistering"]
    /\ clients' = AfterReadError(c)
    /\ UNCHANGED << NotHub, broadcast, send, closed, crashed, serve, writer, hand,
                    conn, frames, submitted, processed, queued, departed >>

NextHub ==
    \/ \E c \in Clients : ServeWs(c)
    \/ \E c \in Clients : HubRegister(c)
    \/ \E c \in Clients : HubUnregister(c)
    \/ HubBroadcast
    \/ BroadcastEarthquake
    \/ \E c \in Clients : WriterReceive(c)
    \/ \E c \in Clients : WriterFlush(c)
    \/ \E c \in Clients : WriterFail(c)
    \/ \E c \in Clients : WriterPingFail(c)
    \/ \E c \in Clients : ReaderFail(c)

SpecHub == InitHub /\ [][NextHub]_vars

\* The scheduling the liveness properties rest on.  The select of Hub.Run
\* chooses among its ready cases at random, and a sender blocked on one of
\* its channels stays blocked until it is served: a request that is waiting
\* is taken.  ReadMessage on a connection that has been closed returns an
\* error.  Nothing is assumed of the peers, of the network writes or of the
\* producer of broadcasts.
HubFairness ==
    /\ \A c \in Clients : WF_vars(HubRegister(c))
    /\ \A c \in Clients : WF_vars(HubUnregister(c))
    /\ WF_vars(HubBroadcast)
    /\ \A c \in Clients : WF_vars(conn[c] = "closed" /\ ReaderFail(c))

SpecHubLive == SpecHub /\ HubFairness

(***************************************************************************)
(* Vocabulary of the hub properties                                        *)
(***************************************************************************)
\* the hub takes a message from h.broadcast in this step
BroadcastStep == processed' # processed

Last(q) == q[Len(q)]
Elems(q) == { q[i] : i \in 1..Len(q) }

(***************************************************************************)
(* C16: when the hub processes a broadcast, every client of the map whose  *)
(* send channel has room gets the message appended and stays in the map;   *)
(* every client whose send channel holds sendCap messages is deleted from  *)
(* the map, its channel closed and nothing appended; nothing panics, so    *)
(* the caller of BroadcastEarthquake sees no error.                        *)
(***************************************************************************)
C16_BroadcastDeliversOrEvicts ==
    [][ BroadcastStep =>
          /\ ~crashed'
          /\ \A c \in clients :
                /\ Len(send[c]) < sendCap =>
                      /\ send'[c] = Append(send[c], Head(broadcast))
                      /\ c \in clients' /\ ~closed'[c]
                /\ Len(send[c]) = sendCap =>
                      /\ c \notin clients' /\ closed'[c]
                      /\ send'[c] = send[c]
          /\ \A c \in Clients \ clients :
                send'[c] = send[c] /\ closed'[c] = closed[c] /\ c \notin clients' ]_vars

\* a broadcast has found c1's channel full and c2's with room: c1 is out,
\* closed, with the sendCap messages it had; c2 is in and has the message
C16_Witness ==
    /\ processed # << >>
    /\ Backlogged \notin clients /\ closed[Backlogged]
    /\ departed[Backlogged] = "evicted"
    /\ Len(send[Backlogged]) = sendCap
    /\ Last(processed) \notin Elems(queued[Backlogged])
    /\ \E c \in clients : send[c] # << >> /\ Last(send[c]) = Last(processed)
    /\ ~crashed

(***************************************************************************)
(* C17: unregister is idempotent and client.send is closed at most once in *)
(* the life of a client: an unregister for a client that is not in the map *)
(* (evicted by a broadcast, or unregistered before) changes nothing in the *)
(* hub, and no channel is ever closed twice.                               *)
(***************************************************************************)
\* the hub takes c's request from h.unregister in this step
UnregisterStep(c) == reader[c] = "unregistering" /\ reader'[c] = "exited"

C17_UnregisterIdempotent ==
    /\ [](~crashed)
    /\ [][ \A c \in Clients :
             /\ closed[c] => closed'[c]
             /\ (UnregisterStep(c) /\ c \notin clients) =>
                   /\ clients' = clients
                   /\ closed' = closed
                   /\ send' = send /\ broadcast' = broadcast
                   /\ ~crashed' ]_vars

\* the hub has processed the unregister of a client that a broadcast had
\* evicted
C17_Witness ==
    /\ departed[Backlogged] = "evicted"
    /\ reader[Backlogged] = "exited"
    /\ closed[Backlogged] /\ Backlogged \notin clients
    /\ ~crashed

(***************************************************************************)
(* C18: for every client, the payloads written to its connection, frame    *)
(* after frame, are in the order in which the hub processed the            *)
(* broadcasts, and each broadcast is put into the client's send channel    *)
(* and written to its connection at most once.                             *)
(***************************************************************************)
\* the payloads of the data frames, in the order written
RECURSIVE Written(_)
Written(fs) ==
    IF fs = << >> THEN << >> ELSE Head(fs).payloads \o Written(Tail(fs))

\* the k-th message the hub processes is the k-th handed to h.broadcast,
\* so the order of processing is the order of the numbers
ProcessedInOrder == \A i \in 1..Len(processed) : processed[i] = i

\* in the order of processing, and nothing twice
Ascending(q) == \A i \in 1..(Len(q) - 1) : q[i] < q[i + 1]

C18_WrittenInBroadcastOrder ==
    /\ ProcessedInOrder
    /\ \A c \in Clients :
          /\ Ascending(queued[c])
          /\ Elems(queued[c]) \subseteq Elems(processed)
          /\ Ascending(Written(frames[c]))
          /\ Elems(Written(frames[c])) \subseteq Elems(queued[c])

\* a client that connected later has been written two frames, with the
\* broadcasts processed since in their order
C18_Witness ==
    \E c \in Clients \ { Backlogged } :
        /\ Len(frames[c]) = 2
        /\ Len(Written(frames[c])) = MaxBroadcasts
        /\ Written(frames[c]) = SubSeq(processed, Len(processed) - MaxBroadcasts + 1, Len(processed))

(***************************************************************************)
(* C19: h.clients is changed only by the loop of Hub.Run, which takes one  *)
(* request at a time from h.register, h.unregister or h.broadcast; ServeWs,*)
(* readPump, writePump and BroadcastEarthquake never add to or delete from *)
(* the map.                                                                *)
(***************************************************************************)
\* the requests the hub takes in this step
RegisterTaken == { c \in Clients : serve[c] = "registering" /\ serve'[c] = "served" }
UnregisterTaken == { c \in Clients : UnregisterStep(c) }
BroadcastTaken == IF BroadcastStep THEN 1 ELSE 0

C19_OnlyControlLoopMutates ==
    [][ /\ clients' # clients =>
              \/ \E c \in Clients : HubRegister(c)
              \/ \E c \in Clients : HubUnregister(c)
              \/ HubBroadcast
        /\ Cardinality(RegisterTaken) + Cardinality(UnregisterTaken) + BroadcastTaken <= 1
        /\ Len(processed') <= Len(processed) + 1 ]_vars

\* the map has been changed in each of the three ways: c2 registered and
\* unregistered, c1 evicted by a broadcast
C19_Witness ==
    /\ departed[Backlogged] = "evicted"
    /\ \E c \in Clients \ { Backlogged } :
          /\ departed[c] = "unregistered"
          /\ serve[c] = "served"
    /\ clients = {}

(***************************************************************************)
(* C20: a client that the hub has removed from h.clients, by the           *)
(* unregister case or by the default case of a broadcast, is never in      *)
(* h.clients again, its send channel stays closed and no later broadcast   *)
(* sends anything on it; and the hub takes a client's unregister request   *)
(* only after it has taken its register request.                           *)
(***************************************************************************)
Removed(c) == departed[c] # "no"

C20_ClosedIsTerminal ==
    /\ [](\A c \in Clients : Removed(c) => c \notin clients /\ closed[c])
    /\ [][ \A c \in Clients :
              /\ Removed(c) =>
                    /\ Removed(c)'
                    /\ c \notin clients'
                    /\ closed'[c]
                    /\ Len(send'[c]) <= Len(send[c])
                    /\ queued'[c] = queued[c]
              /\ UnregisterStep(c) => serve[c] = "served" ]_vars

\* c1 was evicted by the broadcast after the one that filled its channel,
\* and a later broadcast has been processed without reaching it; c2 was
\* registered and then unregistered
C20_Witness ==
    /\ departed[Backlogged] = "evicted"
    /\ Len(processed) = sendCap - 1 + MaxBroadcasts
    /\ Last(queued[Backlogged]) = sendCap
    /\ Backlogged \notin clients
    /\ \E c \in Clients \ { Backlogged } :
          /\ departed[c] = "unregistered"
          /\ serve[c] = "served"
          /\ queued[c] # << >>
          /\ Last(queued[c]) < Last(processed)

(***************************************************************************)
(* C21: once the hub has closed client.send, writePump still receives and  *)
(* writes every message buffered in it, in order, and only then writes the *)
(* close frame and returns, unless a write fails first; nothing is written *)
(* after the close frame.                                                  *)
(***************************************************************************)
CloseFrameAt(c) == { i \in 1..Len(frames[c]) : frames[c][i] = CloseFrame }

C21_DrainsBeforeCloseFrame ==
    /\ [](\A c \in Clients :
            CloseFrameAt(c) # {} =>
               /\ CloseFrameAt(c) = { Len(frames[c]) }
               /\ closed[c]
               /\ writer[c] = "exited"
               /\ Written(frames[c]) = queued[c])
    /\ [][ \A c \in Clients : writer[c] = "exited" => frames'[c] = frames[c] ]_vars

\* c1's channel held sendCap messages when a broadcast closed it, nothing
\* had been written before, and all of them were written, in one frame,
\* before the close frame
C21_Witness ==
    /\ departed[Backlogged] = "evicted"
    /\ Len(queued[Backlogged]) = sendCap
    /\ frames[Backlogged] = << DataFrame(queued[Backlogged]), CloseFrame >>
    /\ writer[Backlogged] = "exited"

(***************************************************************************)
(* C22: when writePump has returned on a write error, or readPump's        *)
(* ReadMessage has returned an error (the peer closed the connection, the  *)
(* deadline passed), the client is sent on h.unregister, and with Hub.Run  *)
(* running it is then out of h.clients with its send channel closed.       *)
(***************************************************************************)
WriterGone(c) == writer[c] = "exited"
ReaderGone(c) == reader[c] \in { "unregistering", "exited" }
UnregisterSubmitted(c) == reader[c] \in { "unregistering", "exited" }
Unregistered(c) == reader[c] = "exited" /\ c \notin clients /\ closed[c]

C22_FailureLeadsToUnregister ==
    /\ \A c \in Clients : WriterGone(c) ~> UnregisterSubmitted(c)
    /\ \A c \in Clients : ReaderGone(c) ~> Unregistered(c)
    /\ [][ \A c \in Clients : Unregistered(c) => Unregistered(c)' ]_vars

\* c2's writePump returned on a write error while the client was in the
\* map with its channel open, and the client has since been unregistered
C22_Witness ==
    \E c \in Clients \ { Backlogged } :
        /\ WriterGone(c)
        /\ CloseFrameAt(c) = {}
        /\ departed[c] = "unregistered"
        /\ Unregistered(c)

(***************************************************************************)
(* C23: every data frame written to a connection carries exactly one       *)
(* serialized envelope, also when several messages are buffered in         *)
(* client.send at the moment writePump writes.                             *)
(***************************************************************************)
C23_OneEnvelopePerFrame ==
    \A c \in Clients :
        \A i \in 1..Len(frames[c]) :
            frames[c][i].kind = "data" => Len(frames[c][i].payloads) = 1

(***************************************************************************)
(* C24: the unregister of one client, and the eviction of a client whose   *)
(* channel is full during a broadcast, leave every other client as it was: *)
(* in or out of h.clients as before, its send channel neither closed nor   *)
(* changed except by the broadcast's own send; and the manager's index and *)
(* channel are untouched.                                                  *)
(***************************************************************************)
EvictedNow(c) == departed[c] # "evicted" /\ departed'[c] = "evicted"
SameMembership(d) == (d \in clients') = (d \in clients)

C24_FailureIsLocal ==
    [][ /\ \A c \in Clients :
              UnregisterStep(c) =>
                 /\ \A d \in Clients \ {c} :
                       /\ SameMembership(d)
                       /\ closed'[d] = closed[d]
                       /\ send'[d] = send[d]
                 /\ UNCHANGED << earthquakes, newEarthquakeChan >>
        /\ BroadcastStep =>
              /\ \A d \in Clients :
                    ~EvictedNow(d) =>
                       /\ SameMembership(d)
                       /\ closed'[d] = closed[d]
                       /\ send'[d] \in { send[d], Append(send[d], Last(processed')) }
              /\ UNCHANGED << earthquakes, newEarthquakeChan >> ]_vars

\* the broadcast that evicted c1 has just been processed: c2 is still in the
\* map, its channel is open and the same message is the last one put in it
C24_Witness ==
    /\ departed[Backlogged] = "evicted"
    /\ Len(processed) = Last(queued[Backlogged]) + 1
    /\ \E d \in Clients \ { Backlogged } :
          /\ d \in clients
          /\ ~closed[d]
          /\ queued[d] # << >>
          /\ Last(queued[d]) = Last(processed)

(***************************************************************************)
(* cmd/server: startDataCollection and fetchAllData.  One goroutine calls  *)
(* the fetchers one after the other and hands what each returns to         *)
(* AddEarthquakes; the cleanup goroutine runs beside it.                   *)
(***************************************************************************)
\* fetchers := []fetcher.Fetcher{usgsFetcher, geofonFetcher, sgcFetcher}
fetchers == << "USGS", "GEOFON", "SGC" >>

\* the fetcher the loop is at
Fetcher == fetchers[drv.i]

\* for i, f := range fetchers has an element left and is not inside a call
AtFetch == drv.at = "fetch" /\ drv.i <= Len(fetchers)

Call(src, ok) == [ source |-> src, ok |-> ok ]

\* a variant that leaves the loop on the first error
AfterFetchErrorBreak(i) == Len(fetchers) + 1

\* if err != nil { log.Printf(...); continue }
AfterFetchError(i) == i + 1

\* f.Fetch() returns an error
FetchFails ==
    /\ AtFetch
    /\ drv' = [drv EXCEPT !.i = AfterFetchError(@),
                          !.calls = Append(@, Call(Fetcher, FALSE))]
    /\ UNCHANGED << mgrVars, feedVars, histVars, geoVars, hubVars, hmu, hubpc, counter, main, fwd >>

\* f.Fetch() returns a slice and manager.AddEarthquakes is called with it.
\* The elements of the slice are those Pick then yields one by one; the
\* document of SGC has no features here, and AddEarthquakes returns at
\* once for an empty slice
FetchReturns ==
    /\ AtFetch
    /\ IF Fetcher \in Procs
       THEN /\ drv' = [drv EXCEPT !.at = "add",
                                  !.calls = Append(@, Call(Fetcher, TRUE)),
                                  !.passed = Append(@, Fetcher)]
            /\ pc' = [pc EXCEPT ![Fetcher] = "loop"]
            /\ batch' = [batch EXCEPT ![Fetcher] = << >>]
            /\ rets' = [rets EXCEPT ![Fetcher] = << >>]
            /\ newOnes' = [newOnes EXCEPT ![Fetcher] = << >>]
       ELSE /\ drv' = [drv EXCEPT !.i = @ + 1,
                                  !.calls = Append(@, Call(Fetcher, TRUE)),
                                  !.passed = Append(@, Fetcher)]
            /\ UNCHANGED << pc, batch, rets, newOnes >>
    /\ UNCHANGED << mgrVars, cur, eq, ret, histVars, geoVars, hubVars, hmu, hubpc, counter, main, fwd >>

\* the loop is inside manager.AddEarthquakes for the slice of feed p
InCallOf(p) == drv.at = "add" /\ drv.i <= Len(fetchers) /\ Fetcher = p

\* newOnes := manager.AddEarthquakes(earthquakes) has returned
AddEarthquakesReturned ==
    /\ drv.at = "add"
    /\ pc[Fetcher] = "done"
    /\ drv' = [drv EXCEPT !.at = "fetch", !.i = @ + 1]
    /\ UNCHANGED << mgrVars, feedVars, histVars, geoVars, hubVars, hmu, hubpc, counter, main, fwd >>

\* fetchAllData has returned; case <-ticker.C: fetchAllData(fetchers, manager)
NextCycle ==
    /\ drv.at = "fetch"
    /\ drv.i > Len(fetchers)
    /\ drv.cycle < MaxCycles
    /\ drv' = [ i |-> 1, at |-> "fetch", cycle |-> drv.cycle + 1,
                calls |-> << >>, passed |-> << >> ]
    /\ UNCHANGED << mgrVars, feedVars, histVars, geoVars, hubVars, hmu, hubpc, counter, main, fwd >>

NextFetch ==
    \/ FetchFails
    \/ FetchReturns
    \/ \E p \in Procs : InCallOf(p) /\ Pick(p)
    \/ \E p \in Procs : InCallOf(p) /\ Return(p)
    \/ \E p \in Procs : InCallOf(p) /\ AddCheck(p)
    \/ \E p \in Procs : InCallOf(p) /\ AddStore(p)
    \/ \E p \in Procs : InCallOf(p) /\ Collect(p)
    \/ AddEarthquakesReturned
    \/ NextCycle
    \/ CleanOld
    \/ Tick

SpecFetch == Init /\ [][NextFetch]_vars

(***************************************************************************)
(* C25: in each run of fetchAllData every fetcher is called exactly once,  *)
(* in the order of the slice, whatever the earlier ones returned; a Fetch  *)
(* that returns an error is followed by no call of AddEarthquakes and      *)
(* changes nothing in the manager; what every other Fetch returns is       *)
(* handed to AddEarthquakes.                                               *)
(***************************************************************************)
\* the sources of the calls that returned no error, in call order
RECURSIVE Succeeded(_)
Succeeded(cs) ==
    IF cs = << >> THEN << >>
    ELSE (IF Head(cs).ok THEN << Head(cs).source >> ELSE << >>) \o Succeeded(Tail(cs))

CycleOver == drv.at = "fetch" /\ drv.i > Len(fetchers)

FetchErrorStep == Len(drv'.calls) = Len(drv.calls) + 1 /\ ~drv'.calls[Len(drv'.calls)].ok

C25_EveryFetcherOncePerCycle ==
    /\ [](/\ \A k \in 1..Len(drv.calls) : drv.calls[k].source = fetchers[k]
          /\ Len(drv.calls) = (IF drv.at = "add" THEN drv.i ELSE drv.i - 1)
          /\ CycleOver => Len(drv.calls) = Len(fetchers)
          /\ drv.passed = Succeeded(drv.calls)
          /\ \A p \in Procs : InCall(p) => InCallOf(p))
    /\ [][ FetchErrorStep =>
              /\ UNCHANGED << mgrVars, feedVars >>
              /\ drv'.at = "fetch"
              /\ drv'.passed = drv.passed ]_vars

\* a cycle is over in which the first fetcher returned an error and the
\* second one's record was then stored
C25_Witness ==
    /\ CycleOver
    /\ ~drv.calls[1].ok
    /\ drv.calls[2].ok
    /\ Len(newOnes[fetchers[2]]) = 1
    /\ drv.passed = << fetchers[2], fetchers[3] >>

(***************************************************************************)
(* The hub with its lock, the stats endpoint and the end of main.          *)
(* Hub.Run receives a request, takes h.mu, runs the case and releases      *)
(* h.mu; here the lock is taken in the step before the one that receives   *)
(* and runs the case, so that the hub actions above are used unchanged.    *)
(* GetClientCount is called by handleGetStats and handleHealth.  When main *)
(* returns the process ends and no goroutine takes another step.           *)
(***************************************************************************)
NotServer == << mgrVars, feedVars, histVars, geoVars, hubVars, drv, fwd >>

Running == main # "returned"

\* h.mu.Lock() returns when nobody holds the lock in either mode
CanLock == ~hmu.w /\ hmu.r = {}

\* h.mu.RLock() returns when nobody holds the lock exclusively
CanRLock == ~hmu.w

\* case message := <-h.broadcast: h.mu.RLock()
BroadcastMode == "r"

Locked(mode, who) ==
    IF mode = "w" THEN [hmu EXCEPT !.w = TRUE] ELSE [hmu EXCEPT !.r = @ \cup {who}]

Unlocked(mode, who) ==
    IF mode = "w" THEN [hmu EXCEPT !.w = FALSE] ELSE [hmu EXCEPT !.r = @ \ {who}]

ModeOf(at) == IF at = "broadcast" THEN BroadcastMode ELSE "w"

\* the select of Hub.Run has a ready case, and the lock of that case
HubLock(at, c) ==
    /\ Running
    /\ ~crashed
    /\ hubpc = HubSelect
    /\ CASE at = "register" -> serve[c] = "registering"
         [] at = "unregister" -> reader[c] = "unregistering"
         [] at = "broadcast" -> c = NoOne /\ broadcast # << >>
    /\ IF ModeOf(at) = "w" THEN CanLock ELSE CanRLock
    /\ hmu' = Locked(ModeOf(at), "hub")
    /\ hubpc' = [ at |-> at, c |-> c, seen |-> Len(processed) ]
    /\ UNCHANGED << NotServer, counter, main >>

\* the case has not run yet
Entered(at, c) == hubpc.at = at /\ hubpc.c = c /\ Len(processed) = hubpc.seen

\* the case has run
CaseDone ==
    CASE hubpc.at = "register" -> serve[hubpc.c] = "served"
      [] hubpc.at = "unregister" -> reader[hubpc.c] = "exited"
      [] hubpc.at = "broadcast" -> Len(processed) > hubpc.seen
      [] OTHER -> FALSE

\* h.mu.Unlock() / h.mu.RUnlock(), and back to the select
HubUnlock ==
    /\ Running
    /\ CaseDone
    /\ hmu' = Unlocked(ModeOf(hubpc.at), "hub")
    /\ hubpc' = HubSelect
    /\ UNCHANGED << NotServer, counter, main >>

\* GetClientCount: h.mu.RLock()
CountRLock ==
    /\ Running
    /\ counter = "idle"
    /\ CanRLock
    /\ hmu' = Locked("r", "stats")
    /\ counter' = "locked"
    /\ UNCHANGED << NotServer, hubpc, main >>

\* GetClientCount: return len(h.clients), and the deferred RUnlock; the
\* number goes into the response and is kept nowhere
CountReturn ==
    /\ Running
    /\ counter = "locked"
    /\ counter' = "idle"
    /\ hmu' = Unlocked("r", "stats")
    /\ UNCHANGED << NotServer, hubpc, main >>

\* main: <-quit
Signal ==
    /\ main = "serving"
    /\ main' = "signalled"
    /\ UNCHANGED << NotServer, hmu, hubpc, counter >>

\* main: httpServer.Shutdown(shutdownCtx), and main returns
MainReturns ==
    /\ main = "signalled"
    /\ main' = "returned"
    /\ UNCHANGED << NotServer, hmu, hubpc, counter >>

NextServer ==
    \/ \E c \in Clients : HubLock("register", c)
    \/ \E c \in Clients : HubLock("unregister", c)
    \/ HubLock("broadcast", NoOne)
    \/ \E c \in Clients : Running /\ Entered("register", c) /\ HubRegister(c)
    \/ \E c \in Clients : Running /\ Entered("unregister", c) /\ HubUnregister(c)
    \/ Running /\ Entered("broadcast", NoOne) /\ HubBroadcast
    \/ HubUnlock
    \/ \E c \in Clients : Running /\ ServeWs(c)
    \/ Running /\ BroadcastEarthquake
    \/ \E c \in Clients : Running /\ WriterReceive(c)
    \/ \E c \in Clients : Running /\ WriterFlush(c)
    \/ \E c \in Clients : Running /\ WriterFail(c)
    \/ \E c \in Clients : Running /\ WriterPingFail(c)
    \/ \E c \in Clients : Running /\ ReaderFail(c)
    \/ CountRLock
    \/ CountReturn
    \/ Signal
    \/ MainReturns

SpecServer == InitHub /\ [][NextServer]_vars

(***************************************************************************)
(* C26: after the termination signal the loop of Hub.Run exits, and it     *)
(* exits at its select, never inside the register, unregister or broadcast *)
(* case: when the process ends, Hub.Run has returned.                      *)
(***************************************************************************)
\* Hub.Run has returned
HubExited == hubpc.at = "exited"

C26_HubExitsOnShutdown == main = "returned" => HubExited

(***************************************************************************)
(* C28: every insertion into and removal from h.clients is made while      *)
(* h.mu is held exclusively, so that no call of GetClientCount, which      *)
(* holds the shared lock, overlaps with it.                                *)
(***************************************************************************)
C28_MutationsHoldExclusiveLock ==
    [][ clients' # clients => hmu.w /\ counter # "locked" ]_vars

(***************************************************************************)
(* C27: over any sequence of fetch cycles and runs of CleanOld, a given    *)
(* identifier is sent on newEarthquakeChan at most once.  Nothing receives *)
(* from the channel in SpecFetch, so the channel holds every record sent.  *)
(***************************************************************************)
C27_AnnouncedAtMostOnce ==
    \A i, j \in 1..Len(newEarthquakeChan) :
        newEarthquakeChan[i].ID = newEarthquakeChan[j].ID => i = j

(***************************************************************************)
(* C29: Hub.Run never waits for a client.  Every client sent on            *)
(* h.register or h.unregister and every message sent on h.broadcast is     *)
(* taken by the hub, also when a writePump never gets on with its write;   *)
(* and whenever a task waits on one of the hub's channels the hub's case   *)
(* for it can run, so no set of tasks waits for one another.               *)
(***************************************************************************)
\* the messages BroadcastEarthquake can have handed over
Submittable == sendCap .. (sendCap - 1 + MaxBroadcasts)

C29_HubNeverBlocks ==
    /\ \A c \in Clients : (serve[c] = "registering") ~> (serve[c] = "served")
    /\ \A c \in Clients : (reader[c] = "unregistering") ~> (reader[c] = "exited")
    /\ \A n \in Submittable : (submitted >= n) ~> (Len(processed) >= n)
    /\ [](/\ ~crashed
          /\ \A c \in Clients : serve[c] = "registering" => ENABLED HubRegister(c)
          /\ \A c \in Clients : reader[c] = "unregistering" => ENABLED HubUnregister(c)
          /\ broadcast # << >> => ENABLED HubBroadcast)

\* c1's writePump has never received anything and its channel is full, and
\* the hub has nevertheless processed every message, the register and the
\* unregister of c2
C29_Witness ==
    /\ frames[Backlogged] = << >>
    /\ writer[Backlogged] = "waiting"
    /\ Len(send[Backlogged]) = sendCap
    /\ Len(processed) = sendCap - 1 + MaxBroadcasts
    /\ broadcast = << >>
    /\ \E c \in Clients \ { Backlogged } : serve[c] = "served" /\ reader[c] = "exited"

(***************************************************************************)
(* cmd/server: startWebSocketNotifications, with the feeds that fill the   *)
(* channel and the hub that empties h.broadcast.  No client is connected.  *)
(***************************************************************************)
\* Message{Type: "new_earthquake", Data: eq}
Message(e) == [ type |-> "new_earthquake", data |-> e ]

\* json.Marshal(message): an error for a float that is not finite
Marshal(m) ==
    IF m.data.Magnitude.finite THEN [ err |-> FALSE, data |-> m ]
    ELSE [ err |-> TRUE, data |-> << >> ]

\* a variant that takes the newest record of the channel
ReceivedNewest(ch) == [ value |-> ch[Len(ch)], rest |-> SubSeq(ch, 1, Len(ch) - 1) ]

\* for eq := range earthquakeChan: the oldest record of the channel
Received(ch) == [ value |-> Head(ch), rest |-> Tail(ch) ]

ForwardReceive ==
    /\ fwd = NoEq
    /\ newEarthquakeChan # << >>
    /\ fwd' = Received(newEarthquakeChan).value
    /\ newEarthquakeChan' = Received(newEarthquakeChan).rest
    /\ UNCHANGED << regionData, earthquakes, mu, now, removed, feedVars, histVars,
                    geoVars, hubVars, drv, hmu, hubpc, counter, main >>

\* hub.BroadcastEarthquake(eq): on a Marshal error the record is logged and
\* the call returns; otherwise h.broadcast <- data waits for room
ForwardBroadcast ==
    /\ fwd # NoEq
    /\ LET res == Marshal(Message(fwd))
       IN  IF res.err
           THEN UNCHANGED broadcast
           ELSE /\ Len(broadcast) < broadcastCap
                /\ broadcast' = Append(broadcast, res.data)
    /\ fwd' = NoEq
    /\ UNCHANGED << mgrVars, feedVars, histVars, geoVars, clients, send, closed,
                    crashed, serve, reader, writer, hand, conn, frames, submitted,
                    processed, queued, departed, drv, hmu, hubpc, counter, main >>

\* the feeds fill the channel, the cleanup makes room for an identifier to
\* be accepted again, the forwarder and the hub empty it; the clock stands
\* at its first instant, where the cleanup already finds records to evict
NextForward ==
    \/ \E p \in Procs : Pick(p)
    \/ \E p \in Procs : Return(p)
    \/ \E p \in Procs : AddCheck(p)
    \/ \E p \in Procs : AddStore(p)
    \/ \E p \in Procs : Collect(p)
    \/ CleanOld
    \/ ForwardReceive
    \/ ForwardBroadcast
    \/ HubBroadcast

\* the forwarder and the hub are goroutines of their own, each waiting only
\* for the other or for the channel: a step of theirs that can be taken is
\* taken
ForwardFairness ==
    /\ WF_vars(ForwardReceive)
    /\ WF_vars(ForwardBroadcast)
    /\ WF_vars(HubBroadcast)

SpecForward == Init /\ [][NextForward]_vars /\ ForwardFairness

(***************************************************************************)
(* Vocabulary of the forwarder properties                                  *)
(***************************************************************************)
\* the messages of the records that are on their way, oldest first: those
\* the hub has processed, those in h.broadcast, the one the forwarder
\* holds, those in the channel
Messages(ch) == [ i \in 1..Len(ch) |-> Message(ch[i]) ]
InHand == IF fwd = NoEq THEN << >> ELSE << Message(fwd) >>
Pipe == processed \o broadcast \o InHand \o Messages(newEarthquakeChan)

Serializable(m) == ~Marshal(m).err
SerializablePipe == SelectSeq(Pipe, Serializable)

\* q is p, or p with one more element at its end
GrowsAtEnd(p, q) ==
    /\ Len(q) \in { Len(p), Len(p) + 1 }
    /\ SubSeq(q, 1, Len(p)) = p

\* nothing is on its way: with the pipe growing only at its end, every
\* record sent so far has then been processed
Drained == newEarthquakeChan = << >> /\ fwd = NoEq /\ broadcast = << >>

Prelabelled(r) == [r EXCEPT !.Oceano = "Caribe", !.OceanoRegion = "local"]

\* what a caller hands over: records as the fetchers build them, and the
\* same records with labels
HandedRecords(p) == FeedRecords(p) \cup { Prelabelled(r) : r \in FeedRecords(p) }

InitUnloaded ==
    /\ regionData = NilRegionData
    /\ ManagerInit(<< >>)
    /\ GeoIdle
    /\ HubInit
    /\ TasksIdle

NextUnloaded ==
    \/ \E p \in Procs : PickFrom(p, HandedRecords(p))
    \/ \E p \in Procs : Return(p)
    \/ \E p \in Procs : AddCheck(p)
    \/ \E p \in Procs : AddStore(p)
    \/ \E p \in Procs : Collect(p)
    \/ CleanOld
    \/ Tick

SpecUnloaded == InitUnloaded /\ [][NextUnloaded]_vars

(***************************************************************************)
(* C31: with the region data never loaded, every call of AddEarthquake     *)
(* returns false and the index stays empty, whatever the record handed     *)
(* over, a record that already carries two labels included.                *)
(***************************************************************************)
C31_NotLoadedStoresNothing ==
    regionData = NilRegionData =>
        /\ earthquakes = EmptyMap
        /\ \A p \in Procs : pc[p] = "ret" => ~ret[p]

(***************************************************************************)
(* The manager with feeds whose epicentres lie in different basins and     *)
(* regions, so that the index holds records with different labels at once. *)
(***************************************************************************)
\* (1,5) is Pacifico/local, (5,17) is Caribe/regional, (1,1) is
\* Pacifico/lejano, (3,19) is outside every polygon of the fixture
SpreadPoints(src) ==
    IF src = "USGS" THEN { Point(1, 5), Point(5, 17), Point(3, 19) } ELSE { Point(1, 1) }

SpreadRecords(src) ==
    { RawEarthquake(id, pt, FeedTime(src, id), src) : id \in IDs, pt \in SpreadPoints(src) }

NextQuery ==
    \/ \E p \in Procs : PickFrom(p, SpreadRecords(p))
    \/ \E p \in Procs : Return(p)
    \/ \E p \in Procs : AddCheck(p)
    \/ \E p \in Procs : AddStore(p)
    \/ \E p \in Procs : Collect(p)
    \/ CleanOld
    \/ Tick

SpecQuery == Init /\ [][NextQuery]_vars

\* the labels the classifier gives, and the names a caller may ask for
Basins == {"Pacifico", "Caribe"}
Regions == {"local", "regional", "lejano"}
AskedNames == QueryNames \cup {"Atlantico"}

\* the records of the index whose field has the value, read off the map
StoredWith(field, value) ==
    { earthquakes[k] : k \in { x \in DOMAIN earthquakes : earthquakes[x][field] = value } }

(***************************************************************************)
(* C32: GetByOceano(name) returns exactly the records of the index whose   *)
(* Oceano is name, GetByRegion(name) exactly those whose OceanoRegion is   *)
(* name, each record once; for "Uncategorized", for the empty name and for *)
(* any name that is not a basin (not a region) the result is empty.        *)
(***************************************************************************)
C32_QueriesFilterByLabel ==
    \A n \in AskedNames :
        /\ GetByOceano(n) # {} /\ GetByRegion(n) # {}
        /\ \A r \in GetByOceano(n) : ExactlyOnce(r, StoredWith("Oceano", n))
        /\ \A r \in GetByRegion(n) : ExactlyOnce(r, StoredWith("OceanoRegion", n))
        /\ n \notin Basins => GetByOceano(n) = { << >> }
        /\ n \notin Regions => GetByRegion(n) = { << >> }

\* the index holds a record of each basin, and one of the two Pacific
\* regions only: each query returns one record and leaves the other out
C32_Witness ==
    /\ StoredWith("Oceano", "Pacifico") # {} /\ StoredWith("Oceano", "Caribe") # {}
    /\ \E r \in GetByOceano("Caribe") : Len(r) = 1 /\ r[1].OceanoRegion = "regional"
    /\ \E r \in GetByRegion("lejano") : Len(r) = 1 /\ r[1].Oceano = "Pacifico"
    /\ Cardinality(DOMAIN earthquakes) = 2

(***************************************************************************)
(* C33: every record of the slice AddEarthquakes returns carries the basin *)
(* and region labels of the record stored in the index under its           *)
(* identifier.                                                             *)
(***************************************************************************)
C33_ReturnedRecordsLabelled ==
    \A p \in Procs : \A i \in 1..Len(newOnes[p]) :
        LET e == newOnes[p][i]
        IN  e.ID \in DOMAIN earthquakes =>
               /\ e.Oceano = earthquakes[e.ID].Oceano
               /\ e.OceanoRegion = earthquakes[e.ID].OceanoRegion

(***************************************************************************)
(* C34: between the cases of Hub.Run, a client is in h.clients if and only *)
(* if the hub has taken it from h.register and its send channel has not    *)
(* been closed; so the broadcast case never sends on a closed channel.     *)
(***************************************************************************)
\* the hub has taken the client from h.register
Registered(c) == serve[c] = "served"

C34_InMapIffRegisteredAndOpen ==
    /\ [](\A c \in Clients : c \in clients <=> (Registered(c) /\ ~closed[c]))
    /\ [](~crashed)
    /\ [][ BroadcastStep =>
             \A c \in Clients : send'[c] # send[c] => ~closed[c] /\ ~closed'[c] ]_vars

\* one client has been unregistered and its channel closed; the other is in
\* the map, open, and has been sent a broadcast since
C34_Witness ==
    \E c, d \in Clients :
        /\ departed[c] = "unregistered" /\ closed[c] /\ c \notin clients
        /\ Registered(c)
        /\ d \in clients /\ ~closed[d]
        /\ queued[d] # << >> /\ Last(queued[d]) = Last(processed)
        /\ Len(processed) > Len(queued[c])

(***************************************************************************)
(* C35: the messages put into a client's send channel are a contiguous     *)
(* segment of the sequence of broadcasts the hub has processed: it begins  *)
(* with the first broadcast processed after the register case and ends     *)
(* with the last one processed before the client left the map, because     *)
(* every broadcast processed while the client is in the map is either      *)
(* appended to its channel or removes it.                                  *)
(***************************************************************************)
\* q is s[a .. a + Len(q) - 1] for some a
IsSegment(q, s) ==
    \E a \in 1..(Len(s) + 1) : q = SubSeq(s, a, a + Len(q) - 1)

C35_NoGapInSendQueue ==
    /\ [](\A c \in Clients :
            /\ IsSegment(queued[c], processed)
            /\ ~Registered(c) => queued[c] = << >>
            /\ (c \in clients /\ queued[c] # << >>) => Last(queued[c]) = Last(processed))
    /\ [][ \A c \in Clients :
             IF BroadcastStep /\ c \in clients
             THEN \/ /\ queued'[c] = Append(queued[c], Last(processed'))
                     /\ send'[c] = Append(send[c], Last(processed'))
                     /\ c \in clients'
                  \/ /\ queued'[c] = queued[c]
                     /\ c \notin clients'
             ELSE queued'[c] = queued[c] ]_vars

\* a client that registered after some broadcasts has been sent every
\* broadcast since, from the first after its register to the last, and the
\* backlogged client was removed by the first broadcast it could not take
C35_Witness ==
    \E c \in Clients \ { Backlogged } :
        /\ c \in clients
        /\ Len(queued[c]) >= 2
        /\ Len(queued[c]) < Len(processed) - Len(SendBacklog)
        /\ queued[c] = SubSeq(processed, Len(processed) - Len(queued[c]) + 1, Len(processed))
        /\ departed[Backlogged] = "evicted"
        /\ queued[Backlogged] = SubSeq(processed, 1, sendCap)

(***************************************************************************)
(* C36: every record sent on newEarthquakeChan has two valid labels and is *)
(* the very record the same call of AddEarthquake inserted into the index; *)
(* a record is sent only by the call that accepts it, in the same step as  *)
(* the insertion and at the end of the channel, so the channel read in     *)
(* order is the sequence of acceptances with some left out (those that     *)
(* found the channel full).                                                *)
(***************************************************************************)
\* feed p accepts a record in this step
Accepts(p) == pc[p] = "store" /\ pc'[p] = "ret" /\ ret'[p]

C36_StreamHoldsStoredRecords ==
    /\ [](\A i \in 1..Len(newEarthquakeChan) : ValidLabels(newEarthquakeChan[i]))
    /\ [][ newEarthquakeChan' # newEarthquakeChan =>
             \E p \in Procs :
                /\ Accepts(p)
                /\ cur[p].ID \notin DOMAIN earthquakes
                /\ newEarthquakeChan' = Append(newEarthquakeChan, earthquakes'[cur[p].ID])
                /\ earthquakes' = Put(earthquakes, cur[p].ID, Last(newEarthquakeChan')) ]_vars
    /\ [][ \A p \in Procs :
             Accepts(p) =>
                \/ newEarthquakeChan' = Append(newEarthquakeChan, earthquakes'[cur[p].ID])
                \/ /\ newEarthquakeChan' = newEarthquakeChan
                   /\ Len(newEarthquakeChan) = newEarthquakeChanCap ]_vars

\* one acceptance has filled the channel with its stored record, and a
\* later acceptance of the other identifier is stored and not in the channel
C36_Witness ==
    /\ Len(newEarthquakeChan) = newEarthquakeChanCap
    /\ Last(newEarthquakeChan).Source \in Procs
    /\ Last(newEarthquakeChan).ID \in DOMAIN earthquakes
    /\ earthquakes[Last(newEarthquakeChan).ID] = Last(newEarthquakeChan)
    /\ \E k \in DOMAIN earthquakes :
          /\ k # Last(newEarthquakeChan).ID
          /\ \A i \in 1..Len(newEarthquakeChan) : newEarthquakeChan[i] # earthquakes[k]

====
